---- MODULE Spec2Model ----
(***************************************************************************)
(* Phylax: expectation evaluation engine (rules, groups, conditionals,     *)
(* scoped rules, evaluator) and the golden-reference workflow of the       *)
(* trace routes.                                                           *)
(*                                                                         *)
(* Python strings are sequences of one-character strings, so that          *)
(* lower(), substring search and whitespace splitting are computed.        *)
(* Rule objects live on a heap (a sequence of records, the index is the    *)
(* object identity) because conditional and scoped rules carry a mutable   *)
(* _context that Evaluator.evaluate overwrites.                            *)
(*                                                                         *)
(* registry, lists, returned: a TemplateRegistry, the list objects that    *)
(* templates and callers hold, and the lists handed out by get_rules.      *)
(* records, graph: the call records of one execution and the execution     *)
(* graph built from them.                                                  *)
(* threads: where each of two concurrent callers stands in its calls.      *)
(***************************************************************************)
EXTENDS Naturals, Sequences, FiniteSets, TLC

VARIABLES heap, evals, last, held, store, resp,
          registry, lists, returned, records, graph, threads

vars == <<heap, evals, last, held, store, resp,
          registry, lists, returned, records, graph, threads>>

(***************************************************************************)
(* Bounds of the model.                                                    *)
(***************************************************************************)
MaxObjs == 3
MaxRules == 2
MaxTextLen == 1
MaxLatency == 2
MaxThreshold == 1
HoldObjs == 2
MaxHeld == 2
MaxTraces == 2
MaxNodes == 3
MaxPathNodes == 4
MaxNodeLatency == 2
MaxTime == 2
TplObjs == 1
MaxTplRules == 2
MaxLists == 2
MaxEvalRules == 3
IsoObjs == 3
IsoRules == 1
MaxEvals == 2
MaxPathLen == 3
HashValues == 7

(***************************************************************************)
(* Strings.                                                                *)
(***************************************************************************)
Chars == {"a", "A", " "}

LowerChar(c) == IF c = "A" THEN "a" ELSE IF c = "I" THEN "i" ELSE c

Lower(s) == [i \in 1..Len(s) |-> LowerChar(s[i])]

\* Python's `sub in text`: the empty string is in every string.
Contains(sub, text) ==
    \E i \in 0..Len(text) :
        /\ i + Len(sub) <= Len(text)
        /\ \A j \in 1..Len(sub) : text[i + j] = sub[j]

\* len(text.split()): the number of maximal runs of non-blank characters.
TokenCount(text) ==
    Cardinality({i \in 1..Len(text) :
        /\ text[i] # " "
        /\ (i = 1 \/ text[i - 1] = " ")})

None == <<>>
Some(x) == <<x>>

\* dict.get(key, default)
Get(d, key, default) == IF key \in DOMAIN d THEN d[key] ELSE default

\* dict.get(key): None when the key is missing.
GetOpt(d, key) == IF key \in DOMAIN d THEN Some(d[key]) ELSE None

EmptyDict == [k \in {} |-> k]

RECURSIVE Join(_, _)
\* sep.join(parts), each part a token sequence.
Join(parts, sep) ==
    IF parts = <<>> THEN <<>>
    ELSE IF Len(parts) = 1 THEN parts[1]
    ELSE parts[1] \o <<sep>> \o Join(Tail(parts), sep)

(***************************************************************************)
(* Severity.                                                               *)
(***************************************************************************)
severity_order == [low |-> 0, medium |-> 1, high |-> 2]

Severities == {"low", "medium", "high"}

RECURSIVE MaxSeverityFrom(_, _)
\* The loop `if severity_order[r.severity] > severity_order[max]: max = ...`
\* over results, started from acc.
MaxSeverityFrom(results, acc) ==
    IF results = <<>> THEN acc
    ELSE MaxSeverityFrom(Tail(results),
            IF severity_order[Head(results).severity] > severity_order[acc]
            THEN Head(results).severity ELSE acc)

(***************************************************************************)
(* RuleResult and the atomic rules.                                        *)
(***************************************************************************)
RuleResult(passed, rule_name, severity, violation_message) ==
    [passed |-> passed, rule_name |-> rule_name, severity |-> severity,
     violation_message |-> violation_message]

AtomicKinds == {"must_include", "must_not_include", "max_latency_ms", "min_tokens"}

AtomicSeverity(kind) ==
    CASE kind = "must_include" -> "low"
      [] kind = "must_not_include" -> "high"
      [] kind = "max_latency_ms" -> "medium"
      [] kind = "min_tokens" -> "low"

AtomicRule(kind, substrings, case_sensitive, n) ==
    [kind |-> kind, name |-> <<kind>>, severity |-> AtomicSeverity(kind),
     substrings |-> substrings, case_sensitive |-> case_sensitive, n |-> n]

Found(substrings, case_sensitive, text) ==
    {i \in 1..Len(substrings) :
        IF case_sensitive THEN Contains(substrings[i], text)
        ELSE Contains(Lower(substrings[i]), Lower(text))}

AtomicPassed(r, text, latency_ms) ==
    CASE r.kind = "must_include" ->
            Found(r.substrings, r.case_sensitive, text) # {}
      [] r.kind = "must_not_include" ->
            Found(r.substrings, r.case_sensitive, text) = {}
      [] r.kind = "max_latency_ms" -> latency_ms <= r.n
      [] r.kind = "min_tokens" -> TokenCount(text) >= r.n

AtomicEvaluate(r, text, latency_ms) ==
    IF AtomicPassed(r, text, latency_ms)
    THEN RuleResult(TRUE, r.name, r.severity, <<>>)
    ELSE RuleResult(FALSE, r.name, r.severity, <<r.kind, " violated">>)

(***************************************************************************)
(* Conditions (conditionals.py) and scopes (scoping.py): pure predicates   *)
(* over a context dict.  A context is a function whose domain is the set   *)
(* of keys present.                                                        *)
(***************************************************************************)
InputContains(substring, case_sensitive) ==
    [name |-> "input_contains", substring |-> substring,
     case_sensitive |-> case_sensitive]

ModelEquals(model) == [name |-> "model_equals", model |-> model]

ProviderEquals(provider) == [name |-> "provider_equals", provider |-> Lower(provider)]

MetadataEquals(key, value) == [name |-> "metadata_equals", key |-> key, value |-> value]

FlagSet(flag_name) == [name |-> "flag_set", flag_name |-> flag_name]

\* Condition.evaluate(context), by subclass.
ConditionEvaluate(c, context) ==
    CASE c.name = "input_contains" ->
            IF c.case_sensitive
            THEN Contains(c.substring, Get(context, "input", <<>>))
            ELSE Contains(Lower(c.substring), Lower(Get(context, "input", <<>>)))
      [] c.name = "model_equals" -> Get(context, "model", <<>>) = c.model
      [] c.name = "provider_equals" ->
            Lower(Get(context, "provider", <<>>)) = c.provider
      [] c.name = "metadata_equals" ->
            GetOpt(Get(context, "metadata", EmptyDict), c.key) = c.value
      [] c.name = "flag_set" ->
            Get(Get(context, "flags", EmptyDict), c.flag_name, FALSE) = TRUE

\* ExpectationScope: each field is None or Some(string).
ExpectationScope(node_id, provider, stage, tool) ==
    [node_id |-> node_id, provider |-> provider, stage |-> stage, tool |-> tool]

is_global(scope) ==
    /\ scope.node_id = None
    /\ scope.provider = None
    /\ scope.stage = None
    /\ scope.tool = None

\* context.get(key) compared with a set scope field: a missing key is None.
ScopeMatches(scope, context) ==
    IF is_global(scope) THEN TRUE
    ELSE IF scope.node_id # None /\ GetOpt(context, "node_id") # scope.node_id
         THEN FALSE
    ELSE IF /\ scope.provider # None
            /\ Lower(Get(context, "provider", <<>>)) # Lower(scope.provider[1])
         THEN FALSE
    ELSE IF scope.stage # None /\ GetOpt(context, "stage") # scope.stage
         THEN FALSE
    ELSE IF scope.tool # None /\ GetOpt(context, "tool") # scope.tool
         THEN FALSE
    ELSE TRUE

\* ExpectationScope.__repr__: only truthy fields are listed.
ScopeRepr(scope) ==
    LET Truthy(f) == f # None /\ f[1] # <<>>
        parts == (IF Truthy(scope.node_id) THEN << <<"node=">> \o scope.node_id[1] >> ELSE <<>>)
              \o (IF Truthy(scope.provider) THEN << <<"provider=">> \o scope.provider[1] >> ELSE <<>>)
              \o (IF Truthy(scope.stage) THEN << <<"stage=">> \o scope.stage[1] >> ELSE <<>>)
              \o (IF Truthy(scope.tool) THEN << <<"tool=">> \o scope.tool[1] >> ELSE <<>>)
    IN  IF parts = <<>> THEN <<"Scope(global)">>
        ELSE <<"Scope(">> \o Join(parts, ", ") \o <<")">>

(***************************************************************************)
(* Rule objects.  h is the heap; a rule is named by its index in h.        *)
(***************************************************************************)
GroupKinds == {"and", "or", "not"}
GatedKinds == {"conditional", "scoped"}

\* name=None keeps the class attribute; so does the empty string (`if name:`).
AndGroup(rules, name) ==
    [kind |-> "and", name |-> IF name # None /\ name[1] # <<>> THEN name[1] ELSE <<"and_group">>,
     severity |-> "medium", rules |-> rules]

OrGroup(rules, name) ==
    [kind |-> "or", name |-> IF name # None /\ name[1] # <<>> THEN name[1] ELSE <<"or_group">>,
     severity |-> "medium", rules |-> rules]

NotGroup(rule, name) ==
    [kind |-> "not", name |-> IF name # None /\ name[1] # <<>> THEN name[1] ELSE <<"not_group">>,
     severity |-> "medium", rules |-> <<rule>>, rule |-> rule]

ConditionalExpectation(h, condition, rule, name) ==
    [kind |-> "conditional",
     name |-> IF name # None /\ name[1] # <<>> THEN name[1]
              ELSE <<"if_", condition.name, "_then_">> \o h[rule].name,
     severity |-> h[rule].severity, condition |-> condition, rule |-> rule,
     context |-> EmptyDict]

ScopedExpectation(h, scope, rule, name) ==
    [kind |-> "scoped",
     name |-> IF name # None /\ name[1] # <<>> THEN name[1]
              ELSE <<"scoped_">> \o h[rule].name,
     severity |-> h[rule].severity, scope |-> scope, rule |-> rule,
     context |-> EmptyDict]

RECURSIVE EvalRule(_, _, _, _)

\* [rule.evaluate(text, latency) for rule in rules]
EvalAll(h, rules, text, latency_ms) ==
    [i \in 1..Len(rules) |-> EvalRule(h, rules[i], text, latency_ms)]

ViolationParts(results) ==
    [i \in 1..Len(results) |->
        results[i].rule_name \o <<": ">> \o results[i].violation_message]

\* Mutant: the severity of the first failing child instead of the maximum.
AndGroupEvaluate_FirstSeverity(h, o, text, latency_ms) ==
    IF o.rules = <<>> THEN RuleResult(TRUE, o.name, "low", <<>>)
    ELSE
      LET results == EvalAll(h, o.rules, text, latency_ms)
          failures == SelectSeq(results, LAMBDA r : ~r.passed)
      IN  IF failures = <<>> THEN RuleResult(TRUE, o.name, "low", <<>>)
          ELSE RuleResult(FALSE, o.name, failures[1].severity,
                 <<"AND group failed: [">>
                   \o Join(ViolationParts(failures), ", ") \o <<"]">>)

AndGroupEvaluate(h, o, text, latency_ms) ==
    IF o.rules = <<>> THEN RuleResult(TRUE, o.name, "low", <<>>)
    ELSE
      LET results == EvalAll(h, o.rules, text, latency_ms)
          failures == SelectSeq(results, LAMBDA r : ~r.passed)
      IN  IF failures = <<>> THEN RuleResult(TRUE, o.name, "low", <<>>)
          ELSE RuleResult(FALSE, o.name, MaxSeverityFrom(failures, "low"),
                 <<"AND group failed: [">>
                   \o Join(ViolationParts(failures), ", ") \o <<"]">>)

\* Mutant: no early return for an empty rule list.
OrGroupEvaluate_NoEmptyCheck(h, o, text, latency_ms) ==
    LET results == EvalAll(h, o.rules, text, latency_ms)
        passes == SelectSeq(results, LAMBDA r : r.passed)
    IN  IF passes # <<>> THEN RuleResult(TRUE, o.name, "low", <<>>)
        ELSE RuleResult(FALSE, o.name, MaxSeverityFrom(results, "low"),
               <<"OR group failed (all alternatives failed): [">>
                 \o Join(ViolationParts(results), ", ") \o <<"]">>)

\* Mutant: passes only when every alternative passes.
OrGroupEvaluate_AllMustPass(h, o, text, latency_ms) ==
    IF o.rules = <<>> THEN RuleResult(TRUE, o.name, "low", <<>>)
    ELSE
      LET results == EvalAll(h, o.rules, text, latency_ms)
          failures == SelectSeq(results, LAMBDA r : ~r.passed)
      IN  IF failures = <<>> THEN RuleResult(TRUE, o.name, "low", <<>>)
          ELSE RuleResult(FALSE, o.name, MaxSeverityFrom(results, "low"),
                 <<"OR group failed (all alternatives failed): [">>
                   \o Join(ViolationParts(results), ", ") \o <<"]">>)

OrGroupEvaluate(h, o, text, latency_ms) ==
    IF o.rules = <<>> THEN RuleResult(TRUE, o.name, "low", <<>>)
    ELSE
      LET results == EvalAll(h, o.rules, text, latency_ms)
          passes == SelectSeq(results, LAMBDA r : r.passed)
      IN  IF passes # <<>> THEN RuleResult(TRUE, o.name, "low", <<>>)
          ELSE RuleResult(FALSE, o.name, MaxSeverityFrom(results, "low"),
                 <<"OR group failed (all alternatives failed): [">>
                   \o Join(ViolationParts(results), ", ") \o <<"]">>)

\* Mutant: the wrapped result's severity instead of the group's own.
NotGroupEvaluate_ChildSeverity(h, o, text, latency_ms) ==
    LET result == EvalRule(h, o.rule, text, latency_ms)
    IN  IF result.passed
        THEN RuleResult(FALSE, o.name, result.severity,
               <<"NOT group failed: ">> \o h[o.rule].name \o <<" unexpectedly passed">>)
        ELSE RuleResult(TRUE, o.name, "low", <<>>)

NotGroupEvaluate(h, o, text, latency_ms) ==
    LET result == EvalRule(h, o.rule, text, latency_ms)
    IN  IF result.passed
        THEN RuleResult(FALSE, o.name, o.severity,
               <<"NOT group failed: ">> \o h[o.rule].name \o <<" unexpectedly passed">>)
        ELSE RuleResult(TRUE, o.name, "low", <<>>)

\* Mutant: the wrapped rule is evaluated whatever the condition says.
ConditionalEvaluate_NoGate(h, o, text, latency_ms) ==
    LET result == EvalRule(h, o.rule, text, latency_ms)
    IN  IF ~result.passed
        THEN RuleResult(FALSE, o.name, result.severity,
               <<"[", o.condition.name, "] ">> \o result.violation_message)
        ELSE RuleResult(TRUE, o.name, "low", <<>>)

\* Mutant: the wrapped rule's message is passed on without the prefix.
ConditionalEvaluate_NoPrefix(h, o, text, latency_ms) ==
    IF ~ConditionEvaluate(o.condition, o.context)
    THEN RuleResult(TRUE, o.name, "low", <<>>)
    ELSE
      LET result == EvalRule(h, o.rule, text, latency_ms)
      IN  IF ~result.passed
          THEN RuleResult(FALSE, o.name, result.severity, result.violation_message)
          ELSE RuleResult(TRUE, o.name, "low", <<>>)

ConditionalEvaluate(h, o, text, latency_ms) ==
    IF ~ConditionEvaluate(o.condition, o.context)
    THEN RuleResult(TRUE, o.name, "low", <<>>)
    ELSE
      LET result == EvalRule(h, o.rule, text, latency_ms)
      IN  IF ~result.passed
          THEN RuleResult(FALSE, o.name, result.severity,
                 <<"[", o.condition.name, "] ">> \o result.violation_message)
          ELSE RuleResult(TRUE, o.name, "low", <<>>)

ScopedEvaluate(h, o, text, latency_ms) ==
    IF ~ScopeMatches(o.scope, o.context)
    THEN RuleResult(TRUE, o.name, "low", <<>>)
    ELSE
      LET result == EvalRule(h, o.rule, text, latency_ms)
      IN  IF ~result.passed
          THEN RuleResult(FALSE, o.name, result.severity,
                 <<"[">> \o ScopeRepr(o.scope) \o <<"] ">> \o result.violation_message)
          ELSE RuleResult(TRUE, o.name, "low", <<>>)

\* rule.evaluate(response_text, latency_ms), dispatched on the object's class.
EvalRule(h, id, text, latency_ms) ==
    LET o == h[id]
    IN  CASE o.kind = "and" -> AndGroupEvaluate(h, o, text, latency_ms)
          [] o.kind = "or" -> OrGroupEvaluate(h, o, text, latency_ms)
          [] o.kind = "not" -> NotGroupEvaluate(h, o, text, latency_ms)
          [] o.kind = "conditional" -> ConditionalEvaluate(h, o, text, latency_ms)
          [] o.kind = "scoped" -> ScopedEvaluate(h, o, text, latency_ms)
          [] OTHER -> AtomicEvaluate(o, text, latency_ms)

\* with_context(context) on a conditional or scoped rule object.
with_context(h, id, context) == [h EXCEPT ![id].context = context]

(***************************************************************************)
(* Verdict and the Evaluator.                                              *)
(***************************************************************************)
Verdict(status, severity, violations) ==
    [status |-> status, severity |-> severity, violations |-> violations]

NewEvaluator == [rules |-> <<>>, has_context |-> FALSE, context |-> EmptyDict]

add_rule(e, id) == [e EXCEPT !.rules = Append(@, id)]

\* Mutant: set_context keeps the context the evaluator had.
set_context_KeepOld(e, context) == [e EXCEPT !.has_context = TRUE]

set_context(e, context) == [e EXCEPT !.has_context = TRUE, !.context = context]

RECURSIVE EvaluateLoop(_, _, _, _, _, _)
\* The `for rule in self.rules` loop of Evaluator.evaluate: with_context on a
\* top-level conditional/scoped rule when the evaluator has a _context, then
\* rule.evaluate.  Returns the heap after the loop and the results.
EvaluateLoop(h, e, i, text, latency_ms, results) ==
    IF i > Len(e.rules) THEN [heap |-> h, results |-> results]
    ELSE
      LET id == e.rules[i]
          h1 == IF h[id].kind \in GatedKinds /\ e.has_context
                THEN with_context(h, id, e.context) ELSE h
      IN  EvaluateLoop(h1, e, i + 1, text, latency_ms,
                       Append(results, EvalRule(h1, id, text, latency_ms)))

\* Mutant: the severity of the first failing result instead of the maximum.
Evaluate_FirstSeverity(h, e, text, latency_ms) ==
    IF e.rules = <<>>
    THEN [heap |-> h, verdict |-> Verdict("pass", None, <<>>), results |-> <<>>]
    ELSE
      LET run == EvaluateLoop(h, e, 1, text, latency_ms, <<>>)
          failed == SelectSeq(run.results, LAMBDA r : ~r.passed)
          violations == [i \in 1..Len(failed) |-> failed[i].violation_message]
      IN  [heap |-> run.heap,
           verdict |-> IF violations = <<>> THEN Verdict("pass", None, <<>>)
                       ELSE Verdict("fail", Some(failed[1].severity), violations),
           results |-> run.results]

\* Mutant: a passing verdict carries the initial severity of the maximum search.
Evaluate_SeverityOnPass(h, e, text, latency_ms) ==
    IF e.rules = <<>>
    THEN [heap |-> h, verdict |-> Verdict("pass", None, <<>>), results |-> <<>>]
    ELSE
      LET run == EvaluateLoop(h, e, 1, text, latency_ms, <<>>)
          failed == SelectSeq(run.results, LAMBDA r : ~r.passed)
          violations == [i \in 1..Len(failed) |-> failed[i].violation_message]
      IN  [heap |-> run.heap,
           verdict |-> Verdict(IF violations = <<>> THEN "pass" ELSE "fail",
                               Some(MaxSeverityFrom(failed, "low")), violations),
           results |-> run.results]

\* Mutant: an evaluator without rules is reported as a failure.
Evaluate_EmptyFails(h, e, text, latency_ms) ==
    IF e.rules = <<>>
    THEN [heap |-> h, verdict |-> Verdict("fail", Some("low"), <<>>), results |-> <<>>]
    ELSE
      LET run == EvaluateLoop(h, e, 1, text, latency_ms, <<>>)
          failed == SelectSeq(run.results, LAMBDA r : ~r.passed)
          violations == [i \in 1..Len(failed) |-> failed[i].violation_message]
      IN  [heap |-> run.heap,
           verdict |-> IF violations = <<>> THEN Verdict("pass", None, <<>>)
                       ELSE Verdict("fail", Some(MaxSeverityFrom(failed, "low")),
                                    violations),
           results |-> run.results]

\* The end of Evaluator.evaluate, after the loop: the Verdict of the results.
CollectVerdict(results) ==
    LET failed == SelectSeq(results, LAMBDA r : ~r.passed)
        violations == [i \in 1..Len(failed) |-> failed[i].violation_message]
    IN  IF violations = <<>> THEN Verdict("pass", None, <<>>)
        ELSE Verdict("fail", Some(MaxSeverityFrom(failed, "low")), violations)

\* Evaluator.evaluate: [heap |-> the heap afterwards, verdict |-> the Verdict,
\* results |-> the RuleResults of the top-level rules].
Evaluate(h, e, text, latency_ms) ==
    IF e.rules = <<>>
    THEN [heap |-> h, verdict |-> Verdict("pass", None, <<>>), results |-> <<>>]
    ELSE
      LET run == EvaluateLoop(h, e, 1, text, latency_ms, <<>>)
      IN  [heap |-> run.heap,
           verdict |-> CollectVerdict(run.results),
           results |-> run.results]

(***************************************************************************)
(* Inputs drawn by the actions.                                            *)
(***************************************************************************)
RECURSIVE SeqsUpTo(_, _)
\* All sequences over S of length at most n.
SeqsUpTo(S, n) ==
    IF n = 0 THEN {<<>>}
    ELSE LET shorter == SeqsUpTo(S, n - 1)
         IN  shorter \cup {Append(q, x) : q \in shorter, x \in S}

\* Sequences without repetition.
DistinctSeqs(S, n) ==
    {q \in SeqsUpTo(S, n) : \A i, j \in 1..Len(q) : q[i] = q[j] => i = j}

Texts == SeqsUpTo(Chars, MaxTextLen)

Latencies == 1..MaxLatency

Thresholds == 1..MaxThreshold

SubstringLists == { << <<"a">> >> }

ConditionPool == {InputContains(<<"a">>, FALSE)}

ScopePool == {ExpectationScope(None, Some(<<"A">>), None, None)}

ContextPool ==
    {[input |-> <<"A">>, provider |-> <<"a">>],
     [input |-> <<" ">>, node_id |-> <<"A">>]}

NoOp == [op |-> "none"]

(***************************************************************************)
(* The expectation engine as a state machine: constructors allocate rule   *)
(* objects, the builder fills the evaluator, evaluate returns a Verdict.   *)
(* last is the most recent evaluate call and what it returned.             *)
(***************************************************************************)
\* The rule objects that importing templates.py constructs for the built-in
\* templates, in the order of the module: two MustNotIncludeRule of
\* safe-response, the MaxLatencyRule of latency-fast, latency-standard and
\* latency-slow, the MinTokensRule of minimum-response and detailed-response.
BuiltinRules ==
    << AtomicRule("must_not_include",
                  << <<"s", "o", "r", "r", "y">>,
                     <<"a", "p", "o", "l", "o", "g", "i", "z", "e">>,
                     <<"c", "a", "n", "n", "o", "t">>,
                     <<"I", "'", "m", " ", "u", "n", "a", "b", "l", "e">> >>,
                  FALSE, 0),
       AtomicRule("must_not_include",
                  << <<"e", "r", "r", "o", "r">>,
                     <<"e", "x", "c", "e", "p", "t", "i", "o", "n">>,
                     <<"f", "a", "i", "l", "e", "d">> >>,
                  FALSE, 0),
       AtomicRule("max_latency_ms", <<>>, FALSE, 1000),
       AtomicRule("max_latency_ms", <<>>, FALSE, 3000),
       AtomicRule("max_latency_ms", <<>>, FALSE, 10000),
       AtomicRule("min_tokens", <<>>, FALSE, 10),
       AtomicRule("min_tokens", <<>>, FALSE, 50) >>

\* The rule objects the caller has constructed: the heap past the built-ins.
Ids == (Len(BuiltinRules) + 1)..Len(heap)

Constructed == Len(heap) - Len(BuiltinRules)

Alloc(o) ==
    /\ Constructed < MaxObjs
    /\ heap' = Append(heap, o)
    /\ last' = NoOp
    /\ UNCHANGED <<evals, held, store, resp, registry, lists, returned, records, graph, threads>>

NewMustInclude ==
    \E substrings \in SubstringLists :
        Alloc(AtomicRule("must_include", substrings, FALSE, 0))

NewMustNotInclude ==
    \E substrings \in SubstringLists :
        Alloc(AtomicRule("must_not_include", substrings, TRUE, 0))

NewMaxLatency ==
    \E max_ms \in Thresholds : Alloc(AtomicRule("max_latency_ms", <<>>, FALSE, max_ms))

NewMinTokens ==
    \E min_tokens \in Thresholds : Alloc(AtomicRule("min_tokens", <<>>, FALSE, min_tokens))

NewAndGroup ==
    \E rules \in DistinctSeqs(Ids, MaxRules) : Alloc(AndGroup(rules, None))

NewOrGroup ==
    \E rules \in DistinctSeqs(Ids, MaxRules) : Alloc(OrGroup(rules, None))

NewNotGroup ==
    \E rule \in Ids : Alloc(NotGroup(rule, None))

NewConditional ==
    \E condition \in ConditionPool, rule \in Ids :
        Alloc(ConditionalExpectation(heap, condition, rule, None))

NewScoped ==
    \E scope \in ScopePool, rule \in Ids :
        Alloc(ScopedExpectation(heap, scope, rule, None))

\* The builder methods of Evaluator: construct the rule and add_rule it in
\* the same call, while the evaluator holds fewer than n rules.
BuildRuleUpTo(n, o) ==
    \E e \in DOMAIN evals :
        /\ Len(evals[e].rules) < n
        /\ Constructed < MaxObjs
        /\ heap' = Append(heap, o)
        /\ evals' = [evals EXCEPT ![e] = add_rule(@, Len(heap) + 1)]
        /\ last' = NoOp
        /\ UNCHANGED <<held, store, resp, registry, lists, returned, records, graph, threads>>

\* evaluator.must_include(substrings)
must_include ==
    \E substrings \in SubstringLists :
        BuildRuleUpTo(MaxRules, AtomicRule("must_include", substrings, FALSE, 0))

\* evaluator.must_not_include(substrings, case_sensitive=True)
must_not_include ==
    \E substrings \in SubstringLists :
        BuildRuleUpTo(MaxRules, AtomicRule("must_not_include", substrings, TRUE, 0))

\* evaluator.max_latency_ms(max_ms)
max_latency_ms ==
    \E max_ms \in Thresholds :
        BuildRuleUpTo(MaxRules, AtomicRule("max_latency_ms", <<>>, FALSE, max_ms))

\* evaluator.min_tokens(min_tokens)
min_tokens ==
    \E n \in Thresholds :
        BuildRuleUpTo(MaxRules, AtomicRule("min_tokens", <<>>, FALSE, n))

\* evaluator.and_group(rules)
and_group ==
    \E rules \in DistinctSeqs(Ids, MaxRules) :
        BuildRuleUpTo(MaxRules, AndGroup(rules, Some(<<"and_group">>)))

\* evaluator.or_group(rules)
or_group ==
    \E rules \in DistinctSeqs(Ids, MaxRules) :
        BuildRuleUpTo(MaxRules, OrGroup(rules, Some(<<"or_group">>)))

\* evaluator.not_rule(rule)
not_rule ==
    \E rule \in Ids :
        BuildRuleUpTo(MaxRules, NotGroup(rule, Some(<<"not_group">>)))

\* evaluator.when_if(condition, rule)
when_if ==
    \E condition \in ConditionPool, rule \in Ids :
        BuildRuleUpTo(MaxRules, ConditionalExpectation(heap, condition, rule, None))

\* evaluator.scoped_for(scope, rule)
scoped_for ==
    \E scope \in ScopePool, rule \in Ids :
        BuildRuleUpTo(MaxRules, ScopedExpectation(heap, scope, rule, None))

\* rule.with_context(context) called by user code on a conditional/scoped rule.
RuleWithContext ==
    \E id \in Ids, context \in ContextPool :
        /\ heap[id].kind \in GatedKinds
        /\ heap' = with_context(heap, id, context)
        /\ last' = NoOp
        /\ UNCHANGED <<evals, held, store, resp, registry, lists, returned, records, graph, threads>>

\* rule.evaluate(text, latency) called directly on a rule object.
RuleEvaluate ==
    \E id \in Ids, text \in Texts, latency_ms \in Latencies :
        /\ last' = [op |-> "rule_evaluate", id |-> id, text |-> text,
                    latency_ms |-> latency_ms,
                    result |-> EvalRule(heap, id, text, latency_ms)]
        /\ UNCHANGED <<heap, evals, held, store, resp, registry, lists, returned, records, graph, threads>>

\* evaluator.add_rule(rule) while the evaluator holds fewer than n rules.
AddRuleUpTo(n) ==
    \E e \in DOMAIN evals, id \in Ids :
        /\ Len(evals[e].rules) < n
        /\ evals' = [evals EXCEPT ![e] = add_rule(@, id)]
        /\ last' = NoOp
        /\ UNCHANGED <<heap, held, store, resp, registry, lists, returned, records, graph, threads>>

AddRule == AddRuleUpTo(MaxRules)

SetContext ==
    \E e \in DOMAIN evals, context \in ContextPool :
        /\ evals' = [evals EXCEPT ![e] = set_context(@, context)]
        /\ last' = NoOp
        /\ UNCHANGED <<heap, held, store, resp, registry, lists, returned, records, graph, threads>>

DoEvaluate ==
    \E e \in DOMAIN evals, text \in Texts, latency_ms \in Latencies :
        LET out == Evaluate(heap, evals[e], text, latency_ms)
        IN  /\ heap' = out.heap
            /\ last' = [op |-> "evaluate", e |-> e,
                        verdict |-> out.verdict, results |-> out.results]
            /\ UNCHANGED <<evals, held, store, resp, registry, lists, returned, records, graph, threads>>

\* A caller evaluates and keeps the Verdict it was handed.
EvaluateAndKeep ==
    /\ Len(held) < MaxHeld
    /\ \E e \in DOMAIN evals, text \in Texts, latency_ms \in Latencies :
        LET out == Evaluate(heap, evals[e], text, latency_ms)
        IN  /\ heap' = out.heap
            /\ held' = Append(held, out.verdict)
            /\ last' = [op |-> "evaluate", e |-> e,
                        verdict |-> out.verdict, results |-> out.results]
            /\ UNCHANGED <<evals, store, resp, registry, lists, returned, records, graph, threads>>

(***************************************************************************)
(* The trace store and the golden-reference endpoints.                     *)
(***************************************************************************)
TraceIds == 1..MaxTraces

Providers == {"openai", "gemini"}
Models == {"gpt-4", "flash"}

\* A call record: its id, its verdict (None when it has none), the golden mark
\* and the provider and model of the call.
Trace(trace_id, verdict, blessed, provider, model) ==
    [trace_id |-> trace_id, verdict |-> verdict, blessed |-> blessed,
     provider |-> provider, model |-> model]

VerdictPool ==
    {None,
     Some(Verdict("pass", None, <<>>)),
     Some(Verdict("fail", Some("high"), << <<"must_not_include", " violated">> >>))}

TracePool ==
    {Trace(id, v, b, pm[1], pm[2]) :
        id \in TraceIds, v \in VerdictPool, b \in BOOLEAN, pm \in Providers \X Models}

\* FileStorage: get_trace, save_trace, delete_trace, bless_trace, unbless_trace.
\* bless_trace and unbless_trace report a failure by returning None / False;
\* the routes answer 500 then.  A failed call leaves the stored record as it
\* was; whether it fails is the storage's choice.
get_trace(st, trace_id) == GetOpt(st, trace_id)

save_trace(st, trace) ==
    [id \in DOMAIN st \cup {trace.trace_id} |->
        IF id = trace.trace_id THEN trace ELSE st[id]]

delete_trace(st, trace_id) ==
    [id \in DOMAIN st \ {trace_id} |-> st[id]]

storage_bless_trace(st, trace_id) ==
    IF trace_id \in DOMAIN st THEN [st EXCEPT ![trace_id].blessed = TRUE] ELSE st

storage_unbless_trace(st, trace_id) ==
    IF trace_id \in DOMAIN st THEN [st EXCEPT ![trace_id].blessed = FALSE] ELSE st

\* An HTTP response: the endpoint, the trace id, the status code and the
\* body's status or the error's detail.
Response(op, trace_id, status_code, detail) ==
    [op |-> op, trace_id |-> trace_id, status_code |-> status_code, detail |-> detail]

Respond(st, r) ==
    /\ store' = st
    /\ resp' = r
    /\ UNCHANGED <<heap, evals, last, held, registry, lists, returned, records, graph, threads>>

\* POST /traces
create_trace ==
    \E trace \in TracePool :
        Respond(save_trace(store, trace),
                Response("create", trace.trace_id, 200, <<"created">>))

\* DELETE /traces/{trace_id}
route_delete_trace ==
    \E trace_id \in TraceIds :
        IF trace_id \notin DOMAIN store
        THEN Respond(store, Response("delete", trace_id, 404, <<"Trace ", trace_id, " not found">>))
        ELSE Respond(delete_trace(store, trace_id),
                     Response("delete", trace_id, 200, <<"deleted">>))

\* POST /traces/{trace_id}/bless
bless_trace ==
    \E trace_id \in TraceIds :
        LET trace == get_trace(store, trace_id)
        IN  IF trace = None
            THEN Respond(store, Response("bless", trace_id, 404, <<"Trace ", trace_id, " not found">>))
            ELSE IF trace[1].verdict = None
            THEN Respond(store, Response("bless", trace_id, 400,
                     <<"PHYLAX_E201", ": Cannot bless trace without verdict">>))
            ELSE IF trace[1].verdict[1].status # "pass"
            THEN Respond(store, Response("bless", trace_id, 400,
                     <<"PHYLAX_E201", ": Cannot bless a failing trace">>))
            ELSE \/ Respond(storage_bless_trace(store, trace_id),
                            Response("bless", trace_id, 200, <<"blessed">>))
                 \* `if blessed is None`: the storage did not mark the record.
                 \/ Respond(store, Response("bless", trace_id, 500,
                                            <<"Failed to bless trace">>))

\* DELETE /traces/{trace_id}/bless
unbless_trace ==
    \E trace_id \in TraceIds :
        LET trace == get_trace(store, trace_id)
        IN  IF trace = None
            THEN Respond(store, Response("unbless", trace_id, 404, <<"Trace ", trace_id, " not found">>))
            ELSE IF ~trace[1].blessed
            THEN Respond(store, Response("unbless", trace_id, 400,
                     <<"Trace is not blessed">>))
            ELSE \/ Respond(storage_unbless_trace(store, trace_id),
                            Response("unbless", trace_id, 200, <<"unblessed">>))
                 \* `if not success`: the storage did not clear the mark.
                 \/ Respond(store, Response("unbless", trace_id, 500,
                                            <<"Failed to unbless trace">>))

\* FileStorage.list_blessed_traces: the ids of the records marked golden.
list_blessed_traces(st) == {id \in DOMAIN st : st[id].blessed}

\* GET /goldens
list_golden_traces ==
    Respond(store, [op |-> "goldens", goldens |-> list_blessed_traces(store),
                    count |-> Cardinality(list_blessed_traces(store))])

\* Mutant: any golden record satisfies the check, whatever its provider and model.
check_AnyPair(st, provider, model) ==
    LET goldens == list_blessed_traces(st)
    IN  IF goldens = {}
        THEN [op |-> "check", provider |-> provider, model |-> model, exit_code |-> 1,
              detail |-> <<"PHYLAX_E202", "No golden trace exists for ", provider, "/", model>>,
              goldens |-> {}]
        ELSE [op |-> "check", provider |-> provider, model |-> model, exit_code |-> 0,
              detail |-> <<"checked">>, goldens |-> goldens]

\* check/replay for a provider/model pair: ReplayWithoutGoldenError when no
\* golden record of the pair exists, else the goldens to replay.
check(st, provider, model) ==
    LET goldens == {id \in list_blessed_traces(st) :
                        st[id].provider = provider /\ st[id].model = model}
    IN  IF goldens = {}
        THEN [op |-> "check", provider |-> provider, model |-> model, exit_code |-> 1,
              detail |-> <<"PHYLAX_E202", "No golden trace exists for ", provider, "/", model>>,
              goldens |-> {}]
        ELSE [op |-> "check", provider |-> provider, model |-> model, exit_code |-> 0,
              detail |-> <<"checked">>, goldens |-> goldens]

DoCheck ==
    \E provider \in Providers, model \in Models :
        Respond(store, check(store, provider, model))

(***************************************************************************)
(* The execution causality graph.  A call record carries its node id, its  *)
(* parent's node id (None for the root), its latency and its verdict.      *)
(* Record sets are sequences in insertion order with distinct node ids.    *)
(***************************************************************************)
NodeIds == 1..MaxNodes
NodeLatencies == 1..MaxNodeLatency
CaptureTimes == 1..MaxTime

CallRecord(node_id, parent_node_id, latency_ms, verdict_status) ==
    [node_id |-> node_id, parent_node_id |-> parent_node_id,
     latency_ms |-> latency_ms, verdict_status |-> verdict_status]

GraphNode(trace) ==
    [node_id |-> trace.node_id, parent_node_id |-> trace.parent_node_id,
     latency_ms |-> trace.latency_ms, verdict_status |-> trace.verdict_status]

\* GraphEdge as <<from_node, to_node>>.
GraphEdge(from_node, to_node) == <<from_node, to_node>>

RECURSIVE EdgesOf(_)
\* One edge (parent, child) per record with a parent, in record order.
EdgesOf(traces) ==
    IF traces = <<>> THEN <<>>
    ELSE LET t == Head(traces)
         IN  (IF t.parent_node_id = None THEN <<>>
              ELSE <<GraphEdge(t.parent_node_id[1], t.node_id)>>)
             \o EdgesOf(Tail(traces))

GraphError(code) == [ok |-> FALSE, error |-> code]

\* Mutant: a parent id is not looked up among the records.
from_traces_NoParentCheck(traces, now) ==
    LET roots == {i \in DOMAIN traces : traces[i].parent_node_id = None}
    IN  IF traces = <<>> THEN GraphError("PHYLAX_E102")
        ELSE IF Cardinality(roots) # 1 THEN GraphError("root")
        ELSE [ok |-> TRUE,
              nodes |-> [i \in DOMAIN traces |-> GraphNode(traces[i])],
              edges |-> EdgesOf(traces),
              root_node_id |-> traces[CHOOSE i \in roots : TRUE].node_id,
              created_at |-> now]

\* Mutant: the root gets an edge from itself.
from_traces_RootEdge(traces, now) ==
    LET roots == {i \in DOMAIN traces : traces[i].parent_node_id = None}
        ids == {traces[i].node_id : i \in DOMAIN traces}
    IN  IF traces = <<>> THEN GraphError("PHYLAX_E102")
        ELSE IF Cardinality(roots) # 1 THEN GraphError("root")
        ELSE IF \E i \in DOMAIN traces :
                    /\ traces[i].parent_node_id # None
                    /\ traces[i].parent_node_id[1] \notin ids
             THEN GraphError("parent")
        ELSE LET root == traces[CHOOSE i \in roots : TRUE].node_id
             IN  [ok |-> TRUE,
                  nodes |-> [i \in DOMAIN traces |-> GraphNode(traces[i])],
                  edges |-> <<GraphEdge(root, root)>> \o EdgesOf(traces),
                  root_node_id |-> root,
                  created_at |-> now]

\* ExecutionGraph.from_traces: all-or-nothing validation, then the graph.
from_traces(traces, now) ==
    LET roots == {i \in DOMAIN traces : traces[i].parent_node_id = None}
        ids == {traces[i].node_id : i \in DOMAIN traces}
    IN  IF traces = <<>> THEN GraphError("PHYLAX_E102")
        ELSE IF Cardinality(roots) # 1 THEN GraphError("root")
        ELSE IF \E i \in DOMAIN traces :
                    /\ traces[i].parent_node_id # None
                    /\ traces[i].parent_node_id[1] \notin ids
             THEN GraphError("parent")
        ELSE [ok |-> TRUE,
              nodes |-> [i \in DOMAIN traces |-> GraphNode(traces[i])],
              edges |-> EdgesOf(traces),
              root_node_id |-> traces[CHOOSE i \in roots : TRUE].node_id,
              created_at |-> now]

\* A call is captured: its record joins the execution's record set.
AddRecordFrom(ids, parents, statuses, maxlen) ==
    /\ graph = NoOp
    /\ Len(records) < maxlen
    /\ \E node_id \in ids \ {records[i].node_id : i \in DOMAIN records},
          parent \in {None} \cup {Some(n) : n \in parents},
          latency_ms \in NodeLatencies, status \in statuses :
            records' = Append(records, CallRecord(node_id, parent, latency_ms, status))
    /\ UNCHANGED <<heap, evals, last, held, store, resp, registry, lists, returned, graph, threads>>

AddRecord == AddRecordFrom(NodeIds, NodeIds, {"pass", "fail"}, MaxNodes)

BuildGraph ==
    /\ graph = NoOp
    /\ \E now \in CaptureTimes : graph' = from_traces(records, now)
    /\ UNCHANGED <<heap, evals, last, held, store, resp, registry, lists, returned, records, threads>>

RECURSIVE Downstream(_, _)
\* The nodes of S and everything below them along the edges of g.
Downstream(g, S) ==
    LET next == S \cup {g.edges[k][2] : k \in {j \in DOMAIN g.edges : g.edges[j][1] \in S}}
    IN  IF next = S THEN S ELSE Downstream(g, next)

GraphVerdict(status, failed_count, tainted_count, first_failing_node) ==
    [status |-> status, failed_count |-> failed_count,
     tainted_count |-> tainted_count, first_failing_node |-> first_failing_node]

\* Mutant: every failing node taints its subtree.
compute_verdict_TaintAll(g) ==
    LET failing == {k \in DOMAIN g.nodes : g.nodes[k].verdict_status = "fail"}
    IN  IF failing = {} THEN GraphVerdict("pass", 0, 0, None)
        ELSE LET first == CHOOSE k \in failing : \A j \in failing : k <= j
             IN  GraphVerdict("fail", Cardinality(failing),
                    Cardinality(Downstream(g, {g.nodes[k].node_id : k \in failing})),
                    Some(g.nodes[first].node_id))

\* ExecutionGraph.compute_verdict: taint propagation from the first failing
\* node in insertion order.
compute_verdict(g) ==
    LET failing == {k \in DOMAIN g.nodes : g.nodes[k].verdict_status = "fail"}
    IN  IF failing = {} THEN GraphVerdict("pass", 0, 0, None)
        ELSE LET first == CHOOSE k \in failing : \A j \in failing : k <= j
             IN  GraphVerdict("fail", Cardinality(failing),
                    Cardinality(Downstream(g, {g.nodes[first].node_id})),
                    Some(g.nodes[first].node_id))

ComputeVerdict ==
    /\ graph # NoOp
    /\ graph.ok
    /\ last' = [op |-> "compute_verdict", result |-> compute_verdict(graph)]
    /\ UNCHANGED <<heap, evals, held, store, resp, registry, lists, returned, records, graph, threads>>

\* The children of node_id in edge order.
ChildrenOf(g, node_id) ==
    LET out == SelectSeq(g.edges, LAMBDA e : e[1] = node_id)
    IN  [k \in DOMAIN out |-> out[k][2]]

RECURSIVE PathLatency(_, _)
PathLatency(g, path) ==
    IF path = <<>> THEN 0
    ELSE (LET k == CHOOSE j \in DOMAIN g.nodes : g.nodes[j].node_id = Head(path)
          IN  g.nodes[k].latency_ms) + PathLatency(g, Tail(path))

RECURSIVE PathBottleneck(_, _)
PathBottleneck(g, path) ==
    IF path = <<>> THEN 0
    ELSE LET k == CHOOSE j \in DOMAIN g.nodes : g.nodes[j].node_id = Head(path)
             rest == PathBottleneck(g, Tail(path))
         IN  IF g.nodes[k].latency_ms > rest THEN g.nodes[k].latency_ms ELSE rest

RECURSIVE GreedyPathFrom(_, _)
\* Mutant: descends into the child with the largest own latency.
GreedyPathFrom(g, node_id) ==
    LET children == ChildrenOf(g, node_id)
    IN  IF children = <<>> THEN <<node_id>>
        ELSE LET best == CHOOSE c \in DOMAIN children :
                            \A d \in DOMAIN children :
                                \/ PathLatency(g, <<children[c]>>) > PathLatency(g, <<children[d]>>)
                                \/ /\ PathLatency(g, <<children[c]>>) = PathLatency(g, <<children[d]>>)
                                   /\ c <= d
             IN  <<node_id>> \o GreedyPathFrom(g, children[best])

RECURSIVE BestPathFrom(_, _)
\* The path from node_id down to a leaf with the largest cumulative latency,
\* computed bottom-up; among equals the first child wins.
BestPathFrom(g, node_id) ==
    LET children == ChildrenOf(g, node_id)
        below == [c \in DOMAIN children |-> BestPathFrom(g, children[c])]
    IN  IF children = <<>> THEN <<node_id>>
        ELSE LET best == CHOOSE c \in DOMAIN children :
                            \A d \in DOMAIN children :
                                \/ PathLatency(g, below[c]) > PathLatency(g, below[d])
                                \/ /\ PathLatency(g, below[c]) = PathLatency(g, below[d])
                                   /\ c <= d
             IN  <<node_id>> \o below[best]

PathReport(g, path) ==
    [path |-> path, total_latency_ms |-> PathLatency(g, path),
     bottleneck_latency_ms |-> PathBottleneck(g, path)]

critical_path_Greedy(g) == PathReport(g, GreedyPathFrom(g, g.root_node_id))

\* ExecutionGraph.critical_path
critical_path(g) == PathReport(g, BestPathFrom(g, g.root_node_id))

CriticalPath ==
    /\ graph # NoOp
    /\ graph.ok
    /\ last' = [op |-> "critical_path", result |-> critical_path(graph)]
    /\ UNCHANGED <<heap, evals, held, store, resp, registry, lists, returned, records, graph, threads>>

\* Records of passing calls, numbered in capture order.
AddTimedRecord ==
    AddRecordFrom({Len(records) + 1}, 1..MaxPathNodes, {"pass"}, MaxPathNodes)

\* What the hash covers of a node: no capture time, no position.
NodeContent(n) == <<n.node_id, n.parent_node_id, n.latency_ms, n.verdict_status>>

\* The canonical serialization of a graph: the nodes sorted by node id, the
\* edges sorted by their end points, volatile fields left out.
canonical_content(g) ==
    LET nodes == SortSeq(g.nodes, LAMBDA a, b : a.node_id < b.node_id)
        edges == SortSeq(g.edges, LAMBDA a, b :
                            a[1] < b[1] \/ (a[1] = b[1] /\ a[2] < b[2]))
    IN  [nodes |-> [k \in DOMAIN nodes |-> NodeContent(nodes[k])],
         edges |-> edges]

\* The serialization that keeps the order of the node and edge lists.
list_order_content(g) ==
    [nodes |-> [k \in DOMAIN g.nodes |-> NodeContent(g.nodes[k])],
     edges |-> g.edges]

RECURSIVE Flatten(_)
Flatten(seqs) == IF seqs = <<>> THEN <<>> ELSE Head(seqs) \o Flatten(Tail(seqs))

\* The serialization as a sequence of numbers: the node count, four numbers
\* per node (id, parent or 0, latency, 1 for pass and 0 for fail), two per
\* edge.
Encode(content) ==
    <<Len(content.nodes)>>
    \o Flatten([k \in DOMAIN content.nodes |->
                   LET n == content.nodes[k]
                   IN  <<n[1], IF n[2] = None THEN 0 ELSE n[2][1], n[3],
                         IF n[4] = "pass" THEN 1 ELSE 0>>])
    \o Flatten(content.edges)

RECURSIVE Digest(_, _)
\* A digest of fixed size, with HashValues values where SHA256 has 2^256:
\* the numbers are folded into h modulo HashValues.  Like every digest of
\* fixed size it maps different inputs to the same value now and then.
Digest(numbers, h) ==
    IF numbers = <<>> THEN h
    ELSE Digest(Tail(numbers), (h * 31 + Head(numbers)) % HashValues)

\* Mutant: the digest of the serialization in list order.
compute_hash_ListOrder(g) == Digest(Encode(list_order_content(g)), 0)

\* ExecutionGraph.compute_hash: the digest of the canonical serialization.
compute_hash(g) == Digest(Encode(canonical_content(g)), 0)

ComputeHash ==
    /\ graph # NoOp
    /\ graph.ok
    /\ last' = [op |-> "compute_hash", result |-> compute_hash(graph)]
    /\ UNCHANGED <<heap, evals, held, store, resp, registry, lists, returned, records, graph, threads>>

(***************************************************************************)
(* Expectation templates.  A Python list is an object: lists holds the     *)
(* list objects (sequences of rule objects of the heap), a template refers *)
(* to its rule list by position in lists.  registry is the process-wide    *)
(* TemplateRegistry, returned the lists that get_rules handed to callers.  *)
(***************************************************************************)
TemplateNames == {"safe-response", "custom"}

Descriptions == {"First"}

ExpectationTemplate(name, description, rules) ==
    [name |-> name, description |-> description, rules |-> rules,
     version |-> "1.0.0"]

\* The rule lists of the built-in templates, over BuiltinRules.
BuiltinLists == << <<1, 2>>, <<3>>, <<4>>, <<5>>, <<6>>, <<7>> >>

\* The lists made since the import.
ListsMade == Len(lists) - Len(BuiltinLists)

SAFE_RESPONSE_TEMPLATE ==
    ExpectationTemplate("safe-response",
        "Blocks responses containing apologies, errors, or harmful content", 1)

LATENCY_FAST_TEMPLATE ==
    ExpectationTemplate("latency-fast",
        "Strict latency for fast operations (< 1s)", 2)

LATENCY_STANDARD_TEMPLATE ==
    ExpectationTemplate("latency-standard",
        "Standard latency for typical operations (< 3s)", 3)

LATENCY_SLOW_TEMPLATE ==
    ExpectationTemplate("latency-slow",
        "Relaxed latency for complex operations (< 10s)", 4)

MINIMUM_RESPONSE_TEMPLATE ==
    ExpectationTemplate("minimum-response",
        "Ensures response is not too short", 5)

DETAILED_RESPONSE_TEMPLATE ==
    ExpectationTemplate("detailed-response",
        "Ensures response has substantial content", 6)

\* Mutant: an existing key keeps its value (dict.setdefault).
SetItem_KeepExisting(d, key, value) ==
    [k \in DOMAIN d \cup {key} |-> IF k \in DOMAIN d THEN d[k] ELSE value]

SetItem(d, key, value) ==
    [k \in DOMAIN d \cup {key} |-> IF k = key THEN value ELSE d[k]]

\* Mutant: get_rules hands out the template's own list.
template_get_rules_NoCopy(ls, t) == [lists |-> ls, result |-> t.rules]

\* ExpectationTemplate.get_rules: self.rules.copy(), a new list of the same
\* rule objects.
template_get_rules(ls, t) ==
    [lists |-> Append(ls, ls[t.rules]), result |-> Len(ls) + 1]

\* Mutant: register overwrites an existing name silently.
register_Overwrite(reg, t) ==
    [raised |-> None, templates |-> SetItem(reg, t.name, t)]

\* TemplateRegistry.register
register(reg, t) ==
    IF t.name \in DOMAIN reg
    THEN [raised |-> Some("ValueError"), templates |-> reg]
    ELSE [raised |-> None, templates |-> SetItem(reg, t.name, t)]

\* TemplateRegistry.register_or_update
register_or_update(reg, t) ==
    [raised |-> None, templates |-> SetItem(reg, t.name, t)]

\* TemplateRegistry.get
registry_get(reg, name) ==
    IF name \notin DOMAIN reg
    THEN [raised |-> Some("KeyError"), result |-> None]
    ELSE [raised |-> None, result |-> Some(reg[name])]

\* TemplateRegistry.get_rules, and get_template_rules on the global registry.
get_template_rules(reg, ls, name) ==
    LET got == registry_get(reg, name)
    IN  IF got.raised # None
        THEN [raised |-> got.raised, lists |-> ls, result |-> None]
        ELSE LET out == template_get_rules(ls, got.result[1])
             IN  [raised |-> None, lists |-> out.lists,
                  result |-> Some(out.result)]

\* TemplateRegistry.exists
exists(reg, name) == name \in DOMAIN reg

\* TemplateRegistry.clear
clear(reg) == EmptyDict

RECURSIVE RegisterEach(_, _, _)
\* for template in templates: if not exists(template.name): register(template)
RegisterEach(reg, templates, i) ==
    IF i > Len(templates) THEN reg
    ELSE RegisterEach(IF exists(reg, templates[i].name) THEN reg
                      ELSE register(reg, templates[i]).templates,
                      templates, i + 1)

\* register_builtin_templates, called when templates.py is imported.
register_builtin_templates(reg) ==
    RegisterEach(reg,
                 <<SAFE_RESPONSE_TEMPLATE, LATENCY_FAST_TEMPLATE,
                   LATENCY_STANDARD_TEMPLATE, LATENCY_SLOW_TEMPLATE,
                   MINIMUM_RESPONSE_TEMPLATE, DETAILED_RESPONSE_TEMPLATE>>,
                 1)

RECURSIVE AddRules(_, _, _)
\* for rule in rules: self.add_rule(rule)
AddRules(e, rules, i) ==
    IF i > Len(rules) THEN e ELSE AddRules(add_rule(e, rules[i]), rules, i + 1)

\* Mutant: the template's rules are put in front of the evaluator's rules.
use_template_InFront(reg, ls, e, name) ==
    LET got == get_template_rules(reg, ls, name)
    IN  IF got.raised # None
        THEN [raised |-> got.raised, evaluator |-> e]
        ELSE [raised |-> None,
              evaluator |->
                  [e EXCEPT !.rules = got.lists[got.result[1]] \o @]]

\* Evaluator.use_template
use_template(reg, ls, e, name) ==
    LET got == get_template_rules(reg, ls, name)
    IN  IF got.raised # None
        THEN [raised |-> got.raised, evaluator |-> e]
        ELSE [raised |-> None,
              evaluator |-> AddRules(e, got.lists[got.result[1]], 1)]

\* ExpectationTemplate(name, description, rules=[...]) then
\* registry.register(template).  A rejected template is dropped with its
\* list.
Register ==
    \E name \in TemplateNames, description \in Descriptions,
       rules \in SeqsUpTo(Ids, MaxTplRules) :
        LET t   == ExpectationTemplate(name, description, Len(lists) + 1)
            out == register(registry, t)
        IN  /\ out.raised = None => ListsMade < MaxLists
            /\ registry' = out.templates
            /\ lists' = IF out.raised = None THEN Append(lists, rules) ELSE lists
            /\ last' = [op |-> "register", name |-> name, template |-> t,
                        raised |-> out.raised]
            /\ UNCHANGED <<heap, evals, held, store, resp, returned, records, graph, threads>>

RegisterOrUpdate ==
    \E name \in TemplateNames, description \in Descriptions,
       rules \in SeqsUpTo(Ids, MaxTplRules) :
        LET t   == ExpectationTemplate(name, description, Len(lists) + 1)
            out == register_or_update(registry, t)
        IN  /\ ListsMade < MaxLists
            /\ registry' = out.templates
            /\ lists' = Append(lists, rules)
            /\ last' = [op |-> "register_or_update", name |-> name,
                        template |-> t, raised |-> out.raised]
            /\ UNCHANGED <<heap, evals, held, store, resp, returned, records, graph, threads>>

\* get_registry().clear()
Clear ==
    /\ registry' = clear(registry)
    /\ last' = [op |-> "clear"]
    /\ UNCHANGED <<heap, evals, held, store, resp, lists, returned, records, graph, threads>>

\* register_builtin_templates() called again by user code.
RegisterBuiltinTemplates ==
    /\ registry' = register_builtin_templates(registry)
    /\ last' = [op |-> "register_builtin_templates"]
    /\ UNCHANGED <<heap, evals, held, store, resp, lists, returned, records, graph, threads>>

\* A caller asks for a template's rules and keeps the list.
GetRules ==
    \E name \in TemplateNames :
        LET out == get_template_rules(registry, lists, name)
        IN  /\ Len(out.lists) - Len(BuiltinLists) <= MaxLists
            /\ lists' = out.lists
            /\ returned' = IF out.raised = None
                           THEN returned \cup {out.result[1]} ELSE returned
            /\ last' = [op |-> "get_rules", name |-> name,
                        raised |-> out.raised, result |-> out.result]
            /\ UNCHANGED <<heap, evals, held, store, resp, registry, records, graph, threads>>

\* The caller appends to, or pops from, a list it got from get_rules.
MutateReturned ==
    \E ref \in returned :
        /\ \/ \E id \in Ids :
                /\ Len(lists[ref]) <= MaxTplRules
                /\ lists' = [lists EXCEPT ![ref] = Append(@, id)]
           \/ /\ Len(lists[ref]) > 0
              /\ lists' = [lists EXCEPT ![ref] = SubSeq(@, 1, Len(@) - 1)]
        /\ last' = [op |-> "mutate", ref |-> ref]
        /\ UNCHANGED <<heap, evals, held, store, resp, registry, returned, records, graph, threads>>

UseTemplate ==
    \E e \in DOMAIN evals, name \in TemplateNames :
        LET out == use_template(registry, lists, evals[e], name)
        IN  /\ Len(out.evaluator.rules) <= MaxEvalRules
            /\ evals' = [evals EXCEPT ![e] = out.evaluator]
            /\ last' = [op |-> "use_template", e |-> e, name |-> name,
                        raised |-> out.raised]
            /\ UNCHANGED <<heap, held, store, resp, registry, lists, returned, records, graph, threads>>

(***************************************************************************)
(* Conditions and scopes called directly on contexts.                      *)
(***************************************************************************)
\* The dicts with keys among K and values in V.
PartialDicts(K, V) == UNION {[S -> V] : S \in SUBSET K}

Merge(a, b) ==
    [k \in DOMAIN a \cup DOMAIN b |-> IF k \in DOMAIN a THEN a[k] ELSE b[k]]

MetadataKeys == {"tool"}

FlagNames == {"strict_mode"}

\* A metadata value or a MetadataEquals value: None or a string.
MetadataValues == {None, Some(<<"a">>)}

ConditionArgs ==
    {InputContains(substring, case_sensitive) :
        substring \in Texts, case_sensitive \in BOOLEAN} \cup
    {ModelEquals(model) : model \in Texts} \cup
    {ProviderEquals(provider) : provider \in Texts} \cup
    {MetadataEquals(key, value) : key \in MetadataKeys, value \in MetadataValues} \cup
    {FlagSet(flag_name) : flag_name \in FlagNames}

ConditionContexts ==
    {Merge(strs, Merge(md, fl)) :
        strs \in PartialDicts({"input", "model", "provider"}, Texts),
        md \in {EmptyDict} \cup
               {[metadata |-> d] : d \in PartialDicts(MetadataKeys, {<<"a">>})},
        fl \in {EmptyDict} \cup
               {[flags |-> d] : d \in PartialDicts(FlagNames, BOOLEAN)}}

ScopeStrings == {<<>>, <<"a">>, <<"A">>}

ScopeFields == {"node_id", "provider", "stage", "tool"}

ScopeArgs ==
    {ExpectationScope(node_id, provider, stage, tool) :
        node_id \in {None} \cup {Some(x) : x \in ScopeStrings},
        provider \in {None} \cup {Some(x) : x \in ScopeStrings},
        stage \in {None} \cup {Some(x) : x \in ScopeStrings},
        tool \in {None} \cup {Some(x) : x \in ScopeStrings}}

ScopeContexts == PartialDicts(ScopeFields, ScopeStrings)

\* condition.evaluate(context).  The function is pure: a behaviour makes
\* one call.
CallConditionEvaluate ==
    /\ last = NoOp
    /\ \E c \in ConditionArgs, context \in ConditionContexts :
        /\ last' = [op |-> "condition_evaluate", condition |-> c,
                    context |-> context,
                    result |-> ConditionEvaluate(c, context)]
        /\ UNCHANGED <<heap, evals, held, store, resp, registry, lists, returned, records, graph, threads>>

\* scope.matches(context), one call as well.
CallScopeMatches ==
    /\ last = NoOp
    /\ \E scope \in ScopeArgs, context \in ScopeContexts :
        /\ last' = [op |-> "scope_matches", scope |-> scope,
                    context |-> context,
                    result |-> ScopeMatches(scope, context)]
        /\ UNCHANGED <<heap, evals, held, store, resp, registry, lists, returned, records, graph, threads>>

(***************************************************************************)
(* Two evaluators, each with a context of its own.                         *)
(***************************************************************************)
\* The context of evaluator e: the two contexts of ContextPool.
OwnContext ==
    [e \in 1..(MaxEvals + 1) |->
        IF e = 1 THEN [input |-> <<"A">>, provider |-> <<"a">>]
        ELSE [input |-> <<" ">>, node_id |-> <<"A">>]]

\* Evaluator()
CreateEvaluator ==
    /\ Len(evals) < MaxEvals
    /\ evals' = Append(evals, NewEvaluator)
    /\ last' = NoOp
    /\ UNCHANGED <<heap, held, store, resp, registry, lists, returned, records, graph, threads>>

\* evaluator.set_context(c) with the evaluator's own context.
SetOwnContext ==
    \E e \in DOMAIN evals :
        /\ evals' = [evals EXCEPT ![e] = set_context(@, OwnContext[e])]
        /\ last' = NoOp
        /\ UNCHANGED <<heap, held, store, resp, registry, lists, returned, records, graph, threads>>

(***************************************************************************)
(* Two threads that share evaluator 1: each calls set_context with its own *)
(* context and then evaluate.  set_context is one step; evaluate is a step *)
(* for its entry and, for every rule of the loop, a step that reads the    *)
(* evaluator's context, a step in which with_context stores it in the rule *)
(* and a step that evaluates the rule, so that the other thread can run    *)
(* between any two of them.                                                *)
(***************************************************************************)
Threads == {1, 2}

\* No thread has made a call yet: the evaluator is still being built.
NotStarted == \A t \in Threads : threads[t].pc = "start"

ThreadSetContext ==
    \E t \in Threads :
        /\ threads[t].pc = "start"
        /\ evals[1].rules # <<>>
        /\ evals' = [evals EXCEPT ![1] = set_context(@, OwnContext[t])]
        /\ threads' = [threads EXCEPT ![t] = [pc |-> "set"]]
        /\ last' = [op |-> "set_context", thread |-> t]
        /\ UNCHANGED <<heap, held, store, resp, registry, lists, returned, records, graph>>

\* evaluate(text, latency_ms) is entered: `if not self.rules` returns a
\* passing Verdict, else the loop starts with an empty result list.
ThreadEvaluate ==
    \E t \in Threads, text \in Texts, latency_ms \in Latencies :
        /\ threads[t].pc = "set"
        /\ threads' = [threads EXCEPT ![t] =
                          IF evals[1].rules = <<>>
                          THEN [pc |-> "done", text |-> text,
                                latency_ms |-> latency_ms,
                                verdict |-> Verdict("pass", None, <<>>)]
                          ELSE [pc |-> "push", text |-> text,
                                latency_ms |-> latency_ms, i |-> 1,
                                results |-> <<>>]]
        /\ UNCHANGED <<heap, evals, last, held, store, resp, registry, lists, returned, records, graph>>

\* The loop body, caller's side: for a conditional or scoped rule, when the
\* evaluator has a _context, `self._context` is read as the argument of
\* rule.with_context; any other rule goes straight to rule.evaluate.
ThreadReadContext ==
    \E t \in Threads :
        /\ threads[t].pc = "push"
        /\ LET th == threads[t]
               id == evals[1].rules[th.i]
           IN  threads' = [threads EXCEPT ![t] =
                              IF heap[id].kind \in GatedKinds /\ evals[1].has_context
                              THEN [pc |-> "store", text |-> th.text,
                                    latency_ms |-> th.latency_ms, i |-> th.i,
                                    results |-> th.results,
                                    context |-> evals[1].context]
                              ELSE [th EXCEPT !.pc = "rule"]]
        /\ UNCHANGED <<heap, evals, last, held, store, resp, registry, lists, returned, records, graph>>

\* rule.with_context(context), callee's side: `self._context = context`
\* stores the argument read earlier, whatever the evaluator holds by now.
ThreadWithContext ==
    \E t \in Threads :
        /\ threads[t].pc = "store"
        /\ LET th == threads[t]
           IN  /\ heap' = with_context(heap, evals[1].rules[th.i], th.context)
               /\ threads' = [threads EXCEPT ![t] =
                                  [pc |-> "rule", text |-> th.text,
                                   latency_ms |-> th.latency_ms, i |-> th.i,
                                   results |-> th.results]]
        /\ UNCHANGED <<evals, last, held, store, resp, registry, lists, returned, records, graph>>

\* result = rule.evaluate(...); results.append(result); after the last rule
\* the Verdict is built from the results and returned.
ThreadEvaluateRule ==
    \E t \in Threads :
        /\ threads[t].pc = "rule"
        /\ LET th == threads[t]
               results == Append(th.results,
                                 EvalRule(heap, evals[1].rules[th.i], th.text,
                                          th.latency_ms))
           IN  threads' = [threads EXCEPT ![t] =
                              IF th.i < Len(evals[1].rules)
                              THEN [th EXCEPT !.pc = "push", !.i = th.i + 1,
                                              !.results = results]
                              ELSE [pc |-> "done", text |-> th.text,
                                    latency_ms |-> th.latency_ms,
                                    verdict |-> CollectVerdict(results)]]
        /\ UNCHANGED <<heap, evals, last, held, store, resp, registry, lists, returned, records, graph>>

(***************************************************************************)
(* Two threads that call registry.register, the existence check and the    *)
(* insert being separate steps, and a reader that calls registry.get.      *)
(***************************************************************************)
\* ExpectationTemplate(name, description, rules=[])
RegisterBuild ==
    \E t \in Threads, name \in TemplateNames, description \in Descriptions :
        /\ threads[t].pc = "start"
        /\ lists' = Append(lists, <<>>)
        /\ threads' = [threads EXCEPT ![t] =
                          [pc |-> "built",
                           template |-> ExpectationTemplate(name, description,
                                                            Len(lists) + 1)]]
        /\ last' = NoOp
        /\ UNCHANGED <<heap, evals, held, store, resp, registry, returned, records, graph>>

\* register: `if template.name in self._templates: raise ValueError`
RegisterCheck ==
    \E t \in Threads :
        /\ threads[t].pc = "built"
        /\ threads' = [threads EXCEPT ![t].pc =
                          IF threads[t].template.name \in DOMAIN registry
                          THEN "raised" ELSE "checked"]
        /\ last' = NoOp
        /\ UNCHANGED <<heap, evals, held, store, resp, registry, lists, returned, records, graph>>

\* register: `self._templates[template.name] = template; return self`
RegisterInsert ==
    \E t \in Threads :
        /\ threads[t].pc = "checked"
        /\ registry' = SetItem(registry, threads[t].template.name,
                               threads[t].template)
        /\ threads' = [threads EXCEPT ![t].pc = "returned"]
        /\ last' = [op |-> "insert", thread |-> t]
        /\ UNCHANGED <<heap, evals, held, store, resp, lists, returned, records, graph>>

\* registry.get(name) by a reader.
RegistryGet ==
    \E name \in TemplateNames :
        LET out == registry_get(registry, name)
        IN  /\ last' = [op |-> "get", name |-> name, raised |-> out.raised,
                        result |-> out.result]
            /\ UNCHANGED <<heap, evals, held, store, resp, registry, lists, returned, records, graph, threads>>

(***************************************************************************)
(* Raw evidence: compare_paths (evidence.py).                              *)
(***************************************************************************)
PathSteps == {"step_a", "step_b"}

PathEvidence(original_path, new_path, diverged, divergence_point) ==
    [original_path |-> original_path, new_path |-> new_path,
     diverged |-> diverged, divergence_point |-> divergence_point]

RECURSIVE ZipScan(_, _, _)
\* for i, (orig, new) in enumerate(zip(original_path, new_path)): the
\* 0-based index of the first pair that differs, or the for-else branch.
ZipScan(original_path, new_path, i) ==
    IF i >= Len(original_path) \/ i >= Len(new_path)
    THEN <<"length_mismatch">>
    ELSE IF original_path[i + 1] # new_path[i + 1] THEN <<"index_", i>>
    ELSE ZipScan(original_path, new_path, i + 1)

RECURSIVE ZipScanLast(_, _, _, _)
ZipScanLast(original_path, new_path, i, found) ==
    IF i >= Len(original_path) \/ i >= Len(new_path) THEN found
    ELSE ZipScanLast(original_path, new_path, i + 1,
            IF original_path[i + 1] # new_path[i + 1] THEN <<"index_", i>>
            ELSE found)

\* Mutant: the loop has no break, the last differing index is reported.
compare_paths_NoBreak(original_path, new_path) ==
    LET diverged == original_path # new_path
    IN  PathEvidence(original_path, new_path, diverged,
            IF diverged
            THEN Some(ZipScanLast(original_path, new_path, 0, <<"length_mismatch">>))
            ELSE None)

compare_paths(original_path, new_path) ==
    LET diverged == original_path # new_path
    IN  PathEvidence(original_path, new_path, diverged,
            IF diverged THEN Some(ZipScan(original_path, new_path, 0))
            ELSE None)

\* compare_paths(a, b).  The function is pure: a behaviour makes one call.
ComparePaths ==
    /\ last = NoOp
    /\ \E a \in SeqsUpTo(PathSteps, MaxPathLen), b \in SeqsUpTo(PathSteps, MaxPathLen) :
        /\ last' = [op |-> "compare_paths", a |-> a, b |-> b,
                    result |-> compare_paths(a, b)]
        /\ UNCHANGED <<heap, evals, held, store, resp, registry, lists, returned, records, graph, threads>>

\* The state after the imports and Evaluator(): the rule objects, lists and
\* registry entries of the built-in templates, one evaluator without rules,
\* an empty trace store.
Init ==
    /\ heap = BuiltinRules
    /\ evals = <<NewEvaluator>>
    /\ last = NoOp
    /\ held = <<>>
    /\ store = EmptyDict
    /\ resp = NoOp
    /\ registry = register_builtin_templates(EmptyDict)
    /\ lists = BuiltinLists
    /\ returned = {}
    /\ records = <<>>
    /\ graph = NoOp
    /\ threads = [t \in Threads |-> [pc |-> "start"]]

Construct ==
    \/ NewMustInclude
    \/ NewMustNotInclude
    \/ NewMaxLatency
    \/ NewMinTokens
    \/ NewAndGroup
    \/ NewOrGroup
    \/ NewNotGroup
    \/ NewConditional
    \/ NewScoped

Next ==
    \/ Construct
    \/ RuleWithContext
    \/ RuleEvaluate

Spec == Init /\ [][Next]_vars

\* The builder methods that construct a rule and add it.
Build ==
    \/ must_include
    \/ must_not_include
    \/ max_latency_ms
    \/ min_tokens
    \/ and_group
    \/ or_group
    \/ not_rule
    \/ when_if
    \/ scoped_for

NextEval ==
    \/ Construct
    \/ Build
    \/ AddRule
    \/ SetContext
    \/ DoEvaluate

SpecEval == Init /\ [][NextEval]_vars

NextHold ==
    \/ (Constructed < HoldObjs /\ Construct)
    \/ AddRule
    \/ SetContext
    \/ EvaluateAndKeep

SpecHold == Init /\ [][NextHold]_vars

NextStore ==
    \/ create_trace
    \/ route_delete_trace
    \/ bless_trace
    \/ unbless_trace

SpecStore == Init /\ [][NextStore]_vars

NextGolden ==
    \/ NextStore
    \/ list_golden_traces
    \/ DoCheck

SpecGolden == Init /\ [][NextGolden]_vars

NextGraph ==
    \/ AddRecord
    \/ BuildGraph
    \/ ComputeVerdict
    \/ ComputeHash

SpecGraph == Init /\ [][NextGraph]_vars

NextPath ==
    \/ AddTimedRecord
    \/ BuildGraph
    \/ CriticalPath

SpecPath == Init /\ [][NextPath]_vars

NextTpl ==
    \/ (Constructed < TplObjs /\ (NewMaxLatency \/ NewMinTokens))
    \/ Register
    \/ RegisterOrUpdate
    \/ Clear
    \/ RegisterBuiltinTemplates
    \/ GetRules
    \/ MutateReturned
    \/ UseTemplate
    \/ AddRule
    \/ DoEvaluate

SpecTpl == Init /\ [][NextTpl]_vars

NextGate ==
    \/ CallConditionEvaluate
    \/ CallScopeMatches

SpecGate == Init /\ [][NextGate]_vars

NextIso ==
    \/ (Constructed < IsoObjs /\ (NewMinTokens \/ NewConditional \/ NewAndGroup))
    \/ CreateEvaluator
    \/ AddRuleUpTo(IsoRules)
    \/ SetOwnContext
    \/ DoEvaluate

SpecIso == Init /\ [][NextIso]_vars

NextShared ==
    \/ (NotStarted /\ Constructed < HoldObjs
           /\ (NewMinTokens \/ NewMaxLatency \/ NewConditional))
    \/ (NotStarted /\ AddRule)
    \/ ThreadSetContext
    \/ ThreadEvaluate
    \/ ThreadReadContext
    \/ ThreadWithContext
    \/ ThreadEvaluateRule

SpecShared == Init /\ [][NextShared]_vars

NextRace ==
    \/ RegisterBuild
    \/ RegisterCheck
    \/ RegisterInsert
    \/ RegistryGet

SpecRace == Init /\ [][NextRace]_vars

NextEvidence == ComparePaths

SpecEvidence == Init /\ [][NextEvidence]_vars

(***************************************************************************)
(* Properties of the evaluator (checked under SpecEval).                   *)
(***************************************************************************)
\* The heap the i-th top-level rule of evaluator ev is evaluated on: every
\* conditional/scoped object among the first i top-level rules holds the
\* evaluator's context, when set_context was called.
HeapSeenBy(ev, i) ==
    [j \in DOMAIN heap |->
        IF /\ ev.has_context
           /\ heap[j].kind \in GatedKinds
           /\ \E k \in 1..i : ev.rules[k] = j
        THEN [heap[j] EXCEPT !.context = ev.context]
        ELSE heap[j]]

\* Is s the greatest severity among the results indexed by I ?
IsMaxSeverity(s, results, I) ==
    /\ \E i \in I : results[i].severity = s
    /\ \A i \in I : severity_order[results[i].severity] <= severity_order[s]

EvaluateContract(ev, text, latency_ms) ==
    LET out == Evaluate(heap, ev, text, latency_ms)
        n == Len(ev.rules)
        expected == [i \in 1..n |->
                        EvalRule(HeapSeenBy(ev, i), ev.rules[i], text, latency_ms)]
        failing == {i \in 1..n : ~expected[i].passed}
        Rank(i) == Cardinality({j \in failing : j <= i})
        v == out.verdict
    IN  /\ Len(out.results) = n
        /\ \A i \in 1..n : out.results[i] = expected[i]
        /\ (v.status = "fail") <=> (failing # {})
        /\ failing = {} => v = Verdict("pass", None, <<>>)
        /\ failing # {} =>
              /\ Len(v.violations) = Cardinality(failing)
              /\ \A i \in failing : v.violations[Rank(i)] = expected[i].violation_message
              /\ v.severity # None
              /\ IsMaxSeverity(v.severity[1], expected, failing)

\* C1: Evaluator.evaluate on a non-empty rule list evaluates every top-level
\* rule, fails iff some top-level result did not pass, then lists exactly the
\* failing results' messages in rule order with the maximum of their
\* severities, and passes otherwise.
C1_EvaluateAllRules ==
    \A e \in DOMAIN evals : \A text \in Texts, latency_ms \in Latencies :
        evals[e].rules # <<>> => EvaluateContract(evals[e], text, latency_ms)

\* An evaluate call returned two different violations with severity high.
C1_Witness ==
    /\ last.op = "evaluate"
    /\ last.verdict.status = "fail"
    /\ Len(last.verdict.violations) = 2
    /\ last.verdict.violations[1] # last.verdict.violations[2]
    /\ last.verdict.severity = Some("high")
    /\ heap[evals[last.e].rules[1]].severity # "high"

\* C2: an evaluator without rules returns status pass for every text, latency
\* and context, with or without set_context, and touches no rule object.
C2_EmptyEvaluatorPasses ==
    /\ \A e \in DOMAIN evals : \A text \in Texts, latency_ms \in Latencies :
          evals[e].rules = <<>> =>
              LET out == Evaluate(heap, evals[e], text, latency_ms)
              IN  out.verdict.status = "pass" /\ out.heap = heap
    /\ (last.op = "evaluate" /\ evals[last.e].rules = <<>>) =>
          last.verdict.status = "pass"

\* An evaluator without rules, after set_context, was evaluated.
C2_Witness ==
    /\ last.op = "evaluate"
    /\ evals[last.e].rules = <<>>
    /\ evals[last.e].has_context
    /\ evals[last.e].context # EmptyDict
    /\ last.verdict.status = "pass"

(***************************************************************************)
(* Properties of the rule objects (checked under Spec).                    *)
(***************************************************************************)
\* Is the gate of the conditional/scoped object o open under the context it holds?
GateOpen(o) ==
    IF o.kind = "conditional" THEN ConditionEvaluate(o.condition, o.context)
    ELSE ScopeMatches(o.scope, o.context)

\* C3: a conditional (scoped) rule whose condition is false (whose scope does
\* not match) under the context it holds passes with an empty message for
\* every text and latency, whatever rule it wraps.
C3_InactiveGatePasses ==
    /\ \A id \in Ids : \A text \in Texts, latency_ms \in Latencies :
          (heap[id].kind \in GatedKinds /\ ~GateOpen(heap[id])) =>
              LET r == EvalRule(heap, id, text, latency_ms)
              IN  r.passed /\ r.violation_message = <<>>
    /\ (/\ last.op = "rule_evaluate"
        /\ heap[last.id].kind \in GatedKinds
        /\ ~GateOpen(heap[last.id])) =>
          (last.result.passed /\ last.result.violation_message = <<>>)

\* A conditional holding a non-empty context under which its condition is
\* false was evaluated on inputs on which the wrapped rule fails.
C3_Witness ==
    /\ last.op = "rule_evaluate"
    /\ heap[last.id].kind = "conditional"
    /\ heap[last.id].context # EmptyDict
    /\ ~GateOpen(heap[last.id])
    /\ ~EvalRule(heap, heap[last.id].rule, last.text, last.latency_ms).passed
    /\ last.result.passed

\* The children's results of group object o.
ChildResults(o, text, latency_ms) ==
    [i \in 1..Len(o.rules) |-> EvalRule(heap, o.rules[i], text, latency_ms)]

RECURSIVE FailingParts(_)
\* "name: message" of every failing result, in order, separated by ", ".
FailingParts(results) ==
    IF results = <<>> THEN <<>>
    ELSE LET rest == FailingParts(Tail(results))
             r == Head(results)
         IN  IF r.passed THEN rest
             ELSE r.rule_name \o <<": ">> \o r.violation_message
                    \o (IF rest = <<>> THEN <<>> ELSE <<", ">> \o rest)

AndGroupContract(o, r, cr) ==
    LET failing == {i \in DOMAIN cr : ~cr[i].passed}
    IN  /\ r.passed <=> (failing = {})
        /\ ~r.passed =>
              /\ IsMaxSeverity(r.severity, cr, failing)
              /\ r.violation_message =
                    <<"AND group failed: [">> \o FailingParts(cr) \o <<"]">>

\* C4: an AndGroup fails iff at least one child fails; then its severity is
\* the maximum over the failing children and its one message holds every
\* failing child's name and message in child order, nothing of passing ones.
C4_AndGroup ==
    /\ \A id \in Ids : \A text \in Texts, latency_ms \in Latencies :
          heap[id].kind = "and" =>
              AndGroupContract(heap[id], EvalRule(heap, id, text, latency_ms),
                               ChildResults(heap[id], text, latency_ms))
    /\ (last.op = "rule_evaluate" /\ heap[last.id].kind = "and") =>
          AndGroupContract(heap[last.id], last.result,
                           ChildResults(heap[last.id], last.text, last.latency_ms))

\* An AndGroup of two children of different severities, both failing, was evaluated.
C4_Witness ==
    /\ last.op = "rule_evaluate"
    /\ heap[last.id].kind = "and"
    /\ Len(heap[last.id].rules) = 2
    /\ LET cr == ChildResults(heap[last.id], last.text, last.latency_ms)
       IN  /\ ~cr[1].passed /\ ~cr[2].passed
           /\ severity_order[cr[1].severity] > severity_order[cr[2].severity]
    /\ ~last.result.passed

\* C5 as stated: for every list of rules, empty or not, an OrGroup passes iff
\* at least one child passes.
C5_OrGroupAnyList ==
    \A id \in Ids : \A text \in Texts, latency_ms \in Latencies :
        heap[id].kind = "or" =>
            (EvalRule(heap, id, text, latency_ms).passed
                <=> \E i \in 1..Len(heap[id].rules) :
                        ChildResults(heap[id], text, latency_ms)[i].passed)

\* C5 amended: for every non-empty list of rules an OrGroup fails iff all
\* children fail (passes iff at least one passes); on the empty list it passes.
C5_OrGroupNonEmpty ==
    /\ \A id \in Ids : \A text \in Texts, latency_ms \in Latencies :
          heap[id].kind = "or" =>
              (EvalRule(heap, id, text, latency_ms).passed
                  <=> \/ heap[id].rules = <<>>
                      \/ \E i \in 1..Len(heap[id].rules) :
                            ChildResults(heap[id], text, latency_ms)[i].passed)
    /\ (last.op = "rule_evaluate" /\ heap[last.id].kind = "or") =>
          (last.result.passed
              <=> \/ heap[last.id].rules = <<>>
                  \/ \E i \in 1..Len(heap[last.id].rules) :
                        ChildResults(heap[last.id], last.text, last.latency_ms)[i].passed)

\* An OrGroup of two children, the first failing and the second passing, was
\* evaluated and passed.
C5_Witness ==
    /\ last.op = "rule_evaluate"
    /\ heap[last.id].kind = "or"
    /\ Len(heap[last.id].rules) = 2
    /\ LET cr == ChildResults(heap[last.id], last.text, last.latency_ms)
       IN  ~cr[1].passed /\ cr[2].passed
    /\ last.result.passed

NotGroupContract(o, r, child) ==
    /\ r.passed <=> ~child.passed
    /\ child.passed =>
          /\ r.severity = o.severity
          /\ r.violation_message # <<>>

\* C6: a NotGroup passes iff the wrapped rule fails on the same input; when
\* the wrapped rule passes it fails with the group's own severity and a
\* non-empty message.
C6_NotGroup ==
    /\ \A id \in Ids : \A text \in Texts, latency_ms \in Latencies :
          heap[id].kind = "not" =>
              NotGroupContract(heap[id], EvalRule(heap, id, text, latency_ms),
                               EvalRule(heap, heap[id].rule, text, latency_ms))
    /\ (last.op = "rule_evaluate" /\ heap[last.id].kind = "not") =>
          NotGroupContract(heap[last.id], last.result,
                           EvalRule(heap, heap[last.id].rule, last.text, last.latency_ms))

\* A NotGroup around a passing rule of another severity was evaluated.
C6_Witness ==
    /\ last.op = "rule_evaluate"
    /\ heap[last.id].kind = "not"
    /\ heap[heap[last.id].rule].severity # heap[last.id].severity
    /\ LET child == EvalRule(heap, heap[last.id].rule, last.text, last.latency_ms)
       IN  child.passed /\ child.severity # heap[last.id].severity
    /\ ~last.result.passed

\* C7: AndGroup([]) and OrGroup([]) pass without a message on every input.
C7_EmptyGroupsPass ==
    /\ \A id \in Ids : \A text \in Texts, latency_ms \in Latencies :
          (heap[id].kind \in {"and", "or"} /\ heap[id].rules = <<>>) =>
              LET r == EvalRule(heap, id, text, latency_ms)
              IN  r.passed /\ r.violation_message = <<>>
    /\ (/\ last.op = "rule_evaluate"
        /\ heap[last.id].kind \in {"and", "or"}
        /\ heap[last.id].rules = <<>>) =>
          (last.result.passed /\ last.result.violation_message = <<>>)

\* An empty OrGroup was evaluated.
C7_Witness ==
    /\ last.op = "rule_evaluate"
    /\ heap[last.id].kind = "or"
    /\ heap[last.id].rules = <<>>
    /\ last.result.passed

(***************************************************************************)
(* Properties of returned verdicts (checked under SpecHold).               *)
(***************************************************************************)
WellFormedVerdict(v) ==
    /\ v.status \in {"pass", "fail"}
    /\ v.status = "pass" => (v.severity = None /\ v.violations = <<>>)
    /\ v.status = "fail" =>
          /\ v.severity # None
          /\ v.severity[1] \in Severities
          /\ v.violations # <<>>

\* C8: every Verdict returned by Evaluator.evaluate has status pass or fail;
\* pass comes with no severity and no violations, fail with a severity among
\* low, medium, high and at least one violation; a Verdict handed out is not
\* changed by later evaluate or set_context calls.
C8_VerdictShapeAndFrozen ==
    /\ [](/\ \A i \in DOMAIN held : WellFormedVerdict(held[i])
          /\ last.op = "evaluate" => WellFormedVerdict(last.verdict)
          /\ \A e \in DOMAIN evals : \A text \in Texts, latency_ms \in Latencies :
                WellFormedVerdict(Evaluate(heap, evals[e], text, latency_ms).verdict))
    /\ [][\A i \in DOMAIN held : i \in DOMAIN held' /\ held'[i] = held[i]]_vars

\* A failing verdict over a gated rule was kept, then the context changed and a later
\* evaluate call of the same evaluator returned a passing verdict.
C8_Witness ==
    /\ Len(held) = 2
    /\ held[1].status = "fail"
    /\ held[2].status = "pass"
    /\ last.op = "evaluate"
    /\ last.verdict = held[2]
    /\ evals[last.e].has_context
    /\ \E i \in DOMAIN evals[last.e].rules :
          heap[evals[last.e].rules[i]].kind \in GatedKinds

(***************************************************************************)
(* Properties of the golden-reference endpoints (checked under SpecStore). *)
(***************************************************************************)
\* The workflow state of a stored record.
TraceState(trace) ==
    IF trace.verdict = None THEN "unverified"
    ELSE IF trace.verdict[1].status # "pass" THEN "failing"
    ELSE IF trace.blessed THEN "blessed"
    ELSE "passing-unblessed"

\* C9: bless succeeds only on a record in state passing-unblessed; on an
\* unverified or failing record it is rejected with PHYLAX_E201, on a blessed
\* or unknown record it does not succeed, and a rejected bless leaves the
\* store unchanged.
C9_BlessOnlyFromPassingUnblessed ==
    [][resp'.op = "bless" =>
        LET id == resp'.trace_id
            known == id \in DOMAIN store
        IN  /\ resp'.status_code = 200 =>
                  (known /\ TraceState(store[id]) = "passing-unblessed")
            /\ (known /\ TraceState(store[id]) \in {"unverified", "failing"}) =>
                  (resp'.status_code = 400 /\ resp'.detail[1] = "PHYLAX_E201")
            /\ resp'.status_code # 200 => store' = store]_vars

\* C10: unbless succeeds only on a record in state blessed and moves it to
\* passing-unblessed; on every other record and on an unknown id it is
\* rejected and leaves the store unchanged.
C10_UnblessOnlyFromBlessed ==
    [][resp'.op = "unbless" =>
        LET id == resp'.trace_id
            known == id \in DOMAIN store
        IN  /\ resp'.status_code = 200 =>
                  /\ known
                  /\ TraceState(store[id]) = "blessed"
                  /\ id \in DOMAIN store'
                  /\ TraceState(store'[id]) = "passing-unblessed"
            /\ resp'.status_code # 200 => store' = store]_vars

(***************************************************************************)
(* Properties of check/replay (checked under SpecGolden).                  *)
(***************************************************************************)
\* The records marked golden whose provider and model are the given ones.
GoldensOf(provider, model) ==
    {id \in DOMAIN store :
        store[id].blessed /\ store[id].provider = provider /\ store[id].model = model}

\* C11: whenever the store holds no blessed record for a provider/model
\* pair, check for that pair is rejected with PHYLAX_E202, after any sequence
\* of create, bless, unbless and delete; a check that succeeds names at least
\* one golden of the pair.
C11_CheckNeedsGolden ==
    /\ [](\A provider \in Providers, model \in Models :
            LET r == check(store, provider, model)
            IN  /\ GoldensOf(provider, model) = {} =>
                      (r.exit_code # 0 /\ r.detail[1] = "PHYLAX_E202")
                /\ r.exit_code = 0 =>
                      (r.goldens # {} /\ r.goldens \subseteq GoldensOf(provider, model)))
    /\ [][resp'.op = "check" =>
            /\ GoldensOf(resp'.provider, resp'.model) = {} =>
                  (resp'.exit_code # 0 /\ resp'.detail[1] = "PHYLAX_E202")
            /\ resp'.exit_code = 0 => resp'.goldens # {}]_vars

\* check was rejected for a pair while the store held a golden of the same
\* provider with another model, and a record of the pair that is not golden.
C11_Witness ==
    /\ resp.op = "check"
    /\ resp.exit_code # 0
    /\ resp.detail[1] = "PHYLAX_E202"
    /\ \E id \in DOMAIN store :
          /\ store[id].blessed
          /\ store[id].provider = resp.provider
          /\ store[id].model # resp.model
    /\ \E id \in DOMAIN store :
          /\ ~store[id].blessed
          /\ store[id].provider = resp.provider
          /\ store[id].model = resp.model

(***************************************************************************)
(* Properties of graph construction (checked under SpecGraph).             *)
(***************************************************************************)
RecordIds == {records[i].node_id : i \in DOMAIN records}

RootRecords == {i \in DOMAIN records : records[i].parent_node_id = None}

DanglingRecords ==
    {i \in DOMAIN records :
        /\ records[i].parent_node_id # None
        /\ records[i].parent_node_id[1] \notin RecordIds}

\* The record set passes the three validation conditions.
ValidRecords ==
    /\ records # <<>>
    /\ Cardinality(RootRecords) = 1
    /\ DanglingRecords = {}

\* C12: construction fails, returning no graph, when the record set is empty
\* (EmptyExecutionGraph), when the records with a null parent are not exactly
\* one, or when some parent id is no record's node id; it returns a graph only
\* when none of these holds.
C12_AllOrNothing ==
    graph # NoOp =>
        /\ graph.ok <=> ValidRecords
        /\ records = <<>> => (~graph.ok /\ graph.error = "PHYLAX_E102")
        /\ ~graph.ok => DOMAIN graph = {"ok", "error"}
        /\ graph.ok => {"nodes", "edges", "root_node_id"} \subseteq DOMAIN graph

\* Construction was refused for two records, one root and one parent id
\* that no record carries.
C12_Witness ==
    /\ graph # NoOp
    /\ ~graph.ok
    /\ Len(records) = 2
    /\ Cardinality(RootRecords) = 1
    /\ Cardinality(DanglingRecords) = 1

\* C13: a graph built from N records has N nodes and N-1 edges: one edge
\* (parent, child) per non-root record, none for the root.
C13_NodeAndEdgeCount ==
    (graph # NoOp /\ graph.ok) =>
        LET N == Len(records)
            edges == {graph.edges[k] : k \in DOMAIN graph.edges}
        IN  /\ Len(graph.nodes) = N
            /\ {graph.nodes[k].node_id : k \in DOMAIN graph.nodes} = RecordIds
            /\ Len(graph.edges) = N - 1
            /\ Cardinality(edges) = N - 1
            /\ \A i \in DOMAIN records :
                  IF records[i].parent_node_id = None
                  THEN \A e \in edges : e[2] # records[i].node_id
                  ELSE /\ <<records[i].parent_node_id[1], records[i].node_id>> \in edges
                       /\ Cardinality({e \in edges : e[2] = records[i].node_id}) = 1

\* A graph of three nodes was built: a root with two children.
C13_Witness ==
    /\ graph # NoOp
    /\ graph.ok
    /\ Len(graph.nodes) = 3
    /\ Cardinality({k \in DOMAIN graph.edges : graph.edges[k][1] = graph.root_node_id}) = 2

\* The node of graph g with the given id.
NodeOf(g, node_id) ==
    g.nodes[CHOOSE k \in DOMAIN g.nodes : g.nodes[k].node_id = node_id]

RECURSIVE ReachesRoot(_, _, _)
\* Do at most k parent steps from node_id end at the root of g ?
ReachesRoot(g, node_id, k) ==
    IF node_id = g.root_node_id THEN TRUE
    ELSE IF k = 0 THEN FALSE
    ELSE LET parent == NodeOf(g, node_id).parent_node_id
         IN  parent # None /\ ReachesRoot(g, parent[1], k - 1)

IsRootedTree(g) ==
    \A k \in DOMAIN g.nodes : ReachesRoot(g, g.nodes[k].node_id, Len(g.nodes))

\* C14: every graph that construction returns is a rooted tree: following
\* parent pointers from any node reaches the root in finitely many steps.
C14_RootedTree ==
    (graph # NoOp /\ graph.ok) => IsRootedTree(graph)

RECURSIVE IsBelow(_, _, _, _)
\* Is node_id the node top or below it, within k parent steps ?
IsBelow(g, node_id, top, k) ==
    IF node_id = top THEN TRUE
    ELSE IF k = 0 THEN FALSE
    ELSE LET parent == NodeOf(g, node_id).parent_node_id
         IN  parent # None /\ IsBelow(g, parent[1], top, k - 1)

VerdictContract(g, v) ==
    LET failing == {k \in DOMAIN g.nodes : g.nodes[k].verdict_status = "fail"}
    IN  /\ (v.status = "fail") <=> (failing # {})
        /\ v.status \in {"pass", "fail"}
        /\ v.failed_count = Cardinality(failing)
        /\ failing = {} => v.first_failing_node = None
        /\ failing # {} =>
              /\ v.first_failing_node # None
              /\ \E k \in failing :
                    /\ g.nodes[k].node_id = v.first_failing_node[1]
                    /\ \A j \in failing : k <= j
              /\ v.tainted_count =
                    Cardinality({j \in DOMAIN g.nodes :
                        IsBelow(g, g.nodes[j].node_id, v.first_failing_node[1],
                                Len(g.nodes))})

\* C15: on every rooted tree compute_verdict returns fail iff some node's own
\* verdict is fail; failedCount counts the failing nodes; firstFailingNode is
\* the first failing node in insertion order (none on pass); taintedCount is
\* the size of the subtree rooted at firstFailingNode, so failing ancestors
\* and sibling branches are not counted.
C15_ComputeVerdict ==
    (graph # NoOp /\ graph.ok /\ IsRootedTree(graph)) =>
        /\ VerdictContract(graph, compute_verdict(graph))
        /\ last.op = "compute_verdict" => VerdictContract(graph, last.result)

\* compute_verdict ran on a tree of three nodes whose first failing node is
\* a child of the root, with the root and the sibling failing too.
C15_Witness ==
    /\ last.op = "compute_verdict"
    /\ IsRootedTree(graph)
    /\ Len(graph.nodes) = 3
    /\ \A k \in DOMAIN graph.nodes : graph.nodes[k].verdict_status = "fail"
    /\ last.result.first_failing_node # Some(graph.root_node_id)
    /\ \A k \in DOMAIN graph.nodes :
          graph.nodes[k].node_id # graph.root_node_id =>
              graph.nodes[k].parent_node_id = Some(graph.root_node_id)
    /\ last.result.tainted_count = 1
    /\ last.result.failed_count = 3

(***************************************************************************)
(* Properties of the critical path (checked under SpecPath).               *)
(***************************************************************************)
RECURSIVE ChainLatency(_, _, _)
\* The latency sum from the root down to node_id, along parent pointers.
ChainLatency(g, node_id, k) ==
    LET n == NodeOf(g, node_id)
    IN  IF n.parent_node_id = None \/ k = 0 THEN n.latency_ms
        ELSE n.latency_ms + ChainLatency(g, n.parent_node_id[1], k - 1)

IsLeaf(g, node_id) == \A k \in DOMAIN g.edges : g.edges[k][1] # node_id

PathContract(g, r) ==
    LET path == r.path
        n == Len(path)
        lat(i) == NodeOf(g, path[i]).latency_ms
    IN  /\ n >= 1
        /\ path[1] = g.root_node_id
        /\ \A i \in 1..(n - 1) :
              \E k \in DOMAIN g.edges : g.edges[k] = <<path[i], path[i + 1]>>
        /\ IsLeaf(g, path[n])
        /\ r.total_latency_ms = ChainLatency(g, path[n], Len(g.nodes))
        /\ \A k \in DOMAIN g.nodes :
              IsLeaf(g, g.nodes[k].node_id) =>
                  r.total_latency_ms >= ChainLatency(g, g.nodes[k].node_id, Len(g.nodes))
        /\ \E i \in 1..n : r.bottleneck_latency_ms = lat(i)
        /\ \A i \in 1..n : r.bottleneck_latency_ms >= lat(i)

\* C16: on every rooted tree critical_path returns a path from the root along
\* parent-to-child edges to a leaf; its total is the latency sum of that path
\* and at least the sum of every other root-to-leaf path; its bottleneck is
\* the largest node latency on the path.
C16_CriticalPath ==
    (graph # NoOp /\ graph.ok /\ IsRootedTree(graph)) =>
        /\ PathContract(graph, critical_path(graph))
        /\ last.op = "critical_path" => PathContract(graph, last.result)

\* critical_path ran on a tree of four nodes and took the branch that
\* starts with the child of smaller own latency, because the
\* branch below it is longer in total.
C16_Witness ==
    /\ last.op = "critical_path"
    /\ IsRootedTree(graph)
    /\ Len(graph.nodes) = 4
    /\ Len(last.result.path) = 3
    /\ \E k \in DOMAIN graph.nodes :
          /\ graph.nodes[k].parent_node_id = Some(graph.root_node_id)
          /\ graph.nodes[k].node_id # last.result.path[2]
          /\ graph.nodes[k].latency_ms > NodeOf(graph, last.result.path[2]).latency_ms

(***************************************************************************)
(* Properties of the integrity hash (checked under SpecGraph).             *)
(***************************************************************************)
\* The orderings of the sequence s.
Reorderings(s) ==
    {[i \in DOMAIN s |-> s[p[i]]] : p \in Permutations(DOMAIN s)}

\* The graphs with the content of g: any order of the node list and of the
\* edge list, any capture time.
SameContent(g) ==
    {[g EXCEPT !.nodes = nodes, !.edges = edges, !.created_at = t] :
        nodes \in Reorderings(g.nodes), edges \in Reorderings(g.edges),
        t \in CaptureTimes}

\* The graphs that differ from g in the latency or the verdict of one node.
OneNodeChanged(g) ==
    {[g EXCEPT !.nodes[k].latency_ms = l] :
        k \in DOMAIN g.nodes, l \in (0..(MaxNodeLatency + HashValues))} \cup
    {[g EXCEPT !.nodes[k].verdict_status = v] :
        k \in DOMAIN g.nodes, v \in {"pass", "fail"}}

OtherEntriesKept(name) ==
    /\ DOMAIN registry' \ {name} = DOMAIN registry \ {name}
    /\ \A other \in DOMAIN registry \ {name} :
          registry'[other] = registry[other]

\* C18: register(t) with a name already present raises and leaves the
\* mapping unchanged; with an absent name it adds exactly t.name -> t;
\* register_or_update(t) always succeeds, sets t.name -> t and leaves every
\* other entry unchanged.
C18_RegisterAndUpdate ==
    [][/\ last'.op = "register" =>
            IF last'.name \in DOMAIN registry
            THEN /\ last'.raised = Some("ValueError")
                 /\ registry' = registry
            ELSE /\ last'.raised = None
                 /\ last'.name \in DOMAIN registry'
                 /\ registry'[last'.name] = last'.template
                 /\ OtherEntriesKept(last'.name)
       /\ last'.op = "register_or_update" =>
            /\ last'.raised = None
            /\ last'.name \in DOMAIN registry'
            /\ registry'[last'.name] = last'.template
            /\ OtherEntriesKept(last'.name)]_vars

\* A register call was rejected while the registry held a template of that
\* name whose rule list differs from the rejected one's, next to a second
\* template.
C18_Witness ==
    /\ last.op = "register"
    /\ last.raised = Some("ValueError")
    /\ registry[last.name] # last.template
    /\ TemplateNames \subseteq DOMAIN registry

\* The rules of the template registered under name, in order.
TemplateRules(name) == lists[registry[name].rules]

\* C19: a registered template's rule list never changes: no get_rules,
\* use_template, add_rule, evaluate or mutation of a list returned by
\* get_rules (nor a repeated register_builtin_templates) changes the
\* template registered under a name or the rules of its list, and
\* get_rules(name) returns a list of the same rules in the same order.
\* Only register, register_or_update and clear change what a name stands for.
C19_TemplateRulesFrozen ==
    [][/\ last'.op \notin {"register", "register_or_update", "clear"} =>
            \A name \in DOMAIN registry :
                /\ name \in DOMAIN registry'
                /\ registry'[name] = registry[name]
                /\ lists'[registry'[name].rules] = TemplateRules(name)
       /\ (last'.op = "get_rules" /\ last'.name \in DOMAIN registry) =>
            /\ last'.raised = None
            /\ lists'[last'.result[1]] = TemplateRules(last'.name)]_vars

\* A caller changed a list it got from get_rules: the list now differs from
\* the rules of a registered template that has two rules, and the evaluator
\* holds at least two rules.
C19_Witness ==
    /\ last.op = "mutate"
    /\ \E name \in DOMAIN registry :
          /\ Len(TemplateRules(name)) = 2
          /\ lists[last.ref] # TemplateRules(name)
          /\ Len(evals[1].rules) >= 2

\* C20: use_template(name) appends exactly the template's rules, in template
\* order, to the end of the evaluator's rule list as individual rules: the
\* list grows by the template's rule count, earlier rules keep their
\* positions and no grouping rule object is created; for a name that is not
\* registered it raises and leaves the rule list unchanged.
C20_UseTemplateFlattens ==
    [][last'.op = "use_template" =>
          LET before == evals[last'.e].rules
              after  == evals'[last'.e].rules
          IN  IF last'.name \in DOMAIN registry
              THEN LET rules == TemplateRules(last'.name)
                   IN  /\ last'.raised = None
                       /\ Len(after) = Len(before) + Len(rules)
                       /\ \A i \in 1..Len(before) : after[i] = before[i]
                       /\ \A j \in 1..Len(rules) :
                             after[Len(before) + j] = rules[j]
                       /\ heap' = heap
              ELSE /\ last'.raised = Some("KeyError")
                   /\ evals' = evals]_vars

\* use_template added a template of two different rules to an evaluator
\* that already held a rule, the first of them not the template's first.
C20_Witness ==
    /\ last.op = "use_template"
    /\ last.raised = None
    /\ LET rules == TemplateRules(last.name)
       IN  /\ Len(rules) = 2
           /\ rules[1] # rules[2]
           /\ Len(evals[last.e].rules) = 3
           /\ evals[last.e].rules[1] # rules[1]

(***************************************************************************)
(* Properties of conditions and scopes (checked under SpecGate).           *)
(***************************************************************************)
\* The context lacks the key that condition c reads.
LacksKey(c, context) ==
    CASE c.name = "input_contains" -> "input" \notin DOMAIN context
      [] c.name = "model_equals" -> "model" \notin DOMAIN context
      [] c.name = "provider_equals" -> "provider" \notin DOMAIN context
      [] c.name = "metadata_equals" ->
            \/ "metadata" \notin DOMAIN context
            \/ c.key \notin DOMAIN context.metadata
      [] c.name = "flag_set" ->
            \/ "flags" \notin DOMAIN context
            \/ c.flag_name \notin DOMAIN context.flags

\* The fields set on the scope.
SetFields(scope) == {f \in ScopeFields : scope[f] # None}

\* C21: on a context that lacks the key a condition reads, evaluate returns
\* false, whatever the constructor arguments; a scope with at least one
\* field set does not match a context that lacks the key of a set field.
C21_AbsentKeyIsFalse ==
    /\ (last.op = "condition_evaluate" /\ LacksKey(last.condition, last.context))
          => last.result = FALSE
    /\ (/\ last.op = "scope_matches"
        /\ \E f \in SetFields(last.scope) : f \notin DOMAIN last.context)
          => last.result = FALSE

\* C22: matches is true iff every field set on the scope equals the value
\* the context holds under that key, the provider compared without case and
\* the other fields exactly; a scope with no field set matches every
\* context.
C22_ScopeMatchesAllSetFields ==
    last.op = "scope_matches" =>
        LET scope   == last.scope
            context == last.context
        IN  last.result =
                \A f \in SetFields(scope) :
                    /\ f \in DOMAIN context
                    /\ IF f = "provider"
                       THEN Lower(context[f]) = Lower(scope[f][1])
                       ELSE context[f] = scope[f][1]

(***************************************************************************)
(* Properties of evaluators side by side (checked under SpecIso).          *)
(***************************************************************************)
\* The heaps evaluator e can meet when it runs alone: every conditional or
\* scoped rule object holds the empty context of its construction or the
\* context e supplied.
AloneHeaps(e) ==
    LET gated == {i \in DOMAIN heap : heap[i].kind \in GatedKinds}
    IN  {[i \in DOMAIN heap |->
            IF i \in gated
            THEN [heap[i] EXCEPT !.context =
                     IF i \in S THEN evals[e].context ELSE EmptyDict]
            ELSE heap[i]] : S \in SUBSET gated}

\* C23: with two evaluators that hold different contexts, in every state
\* reached by interleaving their builder, set_context and evaluate calls,
\* evaluate of an evaluator returns a verdict it returns when run alone
\* with its own context: nothing the other evaluator wrote is read.
C23_EvaluatorsIsolated ==
    \A e \in DOMAIN evals : \A text \in Texts, latency_ms \in Latencies :
        evals[e].has_context =>
            Evaluate(heap, evals[e], text, latency_ms).verdict \in
                {Evaluate(h, evals[e], text, latency_ms).verdict :
                    h \in AloneHeaps(e)}

\* The heap in which every conditional and scoped rule object holds the
\* context of evaluator e; the objects outside e's rule tree play no part in
\* e's verdict.
ContextEverywhere(e) ==
    [i \in DOMAIN heap |->
        IF heap[i].kind \in GatedKinds
        THEN [heap[i] EXCEPT !.context = evals[e].context]
        ELSE heap[i]]

\* C24: after set_context(c), evaluate decides the gate of every conditional
\* and scoped rule of its rule tree against c, top-level or nested in a group
\* or in another wrapper: the results and the verdict are those obtained
\* with c held by every such rule.
C24_ContextReachesNestedRules ==
    \A e \in DOMAIN evals : \A text \in Texts, latency_ms \in Latencies :
        evals[e].has_context =>
            LET actual == Evaluate(heap, evals[e], text, latency_ms)
                wanted == Evaluate(ContextEverywhere(e), evals[e], text, latency_ms)
            IN  /\ actual.verdict = wanted.verdict
                /\ actual.results = wanted.results

\* The sequence q without its element at position k.
RemoveAt(q, k) == SubSeq(q, 1, k - 1) \o SubSeq(q, k + 1, Len(q))

\* The gate of the conditional or scoped rule object o is false under context.
GateFalseUnder(o, context) ==
    IF o.kind = "conditional" THEN ~ConditionEvaluate(o.condition, context)
    ELSE ~ScopeMatches(o.scope, context)

\* C25: a conditional or scoped rule whose gate is false under the
\* evaluator's context contributes nothing: the verdict is the one of the
\* same evaluator with that rule deleted, from the rule list when it is a
\* top-level rule, from the group when it is a child of an AND or OR group.
C25_InactiveRuleContributesNothing ==
    \A e \in DOMAIN evals : \A text \in Texts, latency_ms \in Latencies :
        evals[e].has_context =>
            LET ev      == evals[e]
                verdict == Evaluate(heap, ev, text, latency_ms).verdict
                Inactive(id) == /\ heap[id].kind \in GatedKinds
                                /\ GateFalseUnder(heap[id], ev.context)
            IN  /\ \A k \in DOMAIN ev.rules :
                      Inactive(ev.rules[k]) =>
                          verdict =
                              Evaluate(heap, [ev EXCEPT !.rules = RemoveAt(@, k)],
                                       text, latency_ms).verdict
                /\ \A g \in DOMAIN heap :
                      heap[g].kind \in {"and", "or"} =>
                          \A k \in DOMAIN heap[g].rules :
                              Inactive(heap[g].rules[k]) =>
                                  verdict =
                                      Evaluate([heap EXCEPT ![g].rules = RemoveAt(@, k)],
                                               ev, text, latency_ms).verdict

(***************************************************************************)
(* Properties of active conditional and scoped rules (checked under Spec). *)
(***************************************************************************)
\* What an active wrapper puts in front of the wrapped rule's message.
GatePrefix(o) ==
    IF o.kind = "conditional" THEN <<"[", o.condition.name, "] ">>
    ELSE <<"[">> \o ScopeRepr(o.scope) \o <<"] ">>

\* C26: a conditional (scoped) rule whose condition is true (whose scope
\* matches) under the context it holds passes iff the wrapped rule passes on
\* the same text and latency; when the wrapped rule fails the result has the
\* wrapped result's severity and its message behind the condition's (scope's)
\* identity; the rule name is the wrapper's.
C26_ActiveGateDelegates ==
    \A id \in Ids : \A text \in Texts, latency_ms \in Latencies :
        (heap[id].kind \in GatedKinds /\ ~GateFalseUnder(heap[id], heap[id].context)) =>
            LET r == EvalRule(heap, id, text, latency_ms)
                w == EvalRule(heap, heap[id].rule, text, latency_ms)
            IN  /\ r.passed = w.passed
                /\ r.rule_name = heap[id].name
                /\ ~w.passed =>
                      /\ r.severity = w.severity
                      /\ r.violation_message = GatePrefix(heap[id]) \o w.violation_message

\* evaluate was called on an active conditional rule that wraps a group, and
\* failed with a severity that is not the one the wrapper was built with.
C26_Witness ==
    /\ last.op = "rule_evaluate"
    /\ heap[last.id].kind = "conditional"
    /\ ~GateFalseUnder(heap[last.id], heap[last.id].context)
    /\ ~last.result.passed
    /\ heap[heap[last.id].rule].kind \in GroupKinds
    /\ last.result.severity # heap[last.id].severity
    /\ last.result.rule_name = heap[last.id].name

(***************************************************************************)
(* The golden mark in the store (checked under SpecStore).                 *)
(***************************************************************************)
\* C27: in every store state reached by create (also of an id that exists),
\* bless, unbless and delete requests, every record marked blessed has a
\* verdict with status pass.
C27_BlessedImpliesPass ==
    \A id \in DOMAIN store :
        store[id].blessed =>
            /\ store[id].verdict # None
            /\ store[id].verdict[1].status = "pass"

(***************************************************************************)
(* One evaluator shared by two threads (checked under SpecShared).         *)
(***************************************************************************)
\* The verdict evaluator 1 gives on the heap h when it holds the context of
\* thread t.
VerdictUnder(h, t, text, latency_ms) ==
    Evaluate(h, [evals[1] EXCEPT !.has_context = TRUE, !.context = OwnContext[t]],
             text, latency_ms).verdict

\* C28: on an evaluator shared by two threads, the context a thread's
\* evaluate reads for a conditional or scoped rule is the one of the thread
\* whose set_context came last, which need not be its own; with_context
\* stores the context that was read, even when the evaluator holds another
\* one by then; the rule is evaluated under the context stored in it last,
\* by either thread, and the verdict is built from these results.  An
\* interleaving in which a thread's verdict is the one of the other thread's
\* context, and differs from the thread's verdict alone, is the witness.
C28_VerdictFromLastSetContext ==
    [][\A t \in Threads :
          LET id == evals[1].rules[threads[t].i]
              SetBySomeThread(context) ==
                  \E u \in Threads :
                      threads[u].pc # "start" /\ context = OwnContext[u]
          IN  /\ (threads[t].pc = "push" /\ threads'[t].pc = "store") =>
                    /\ heap[id].kind \in GatedKinds
                    /\ last.op = "set_context"
                    /\ threads'[t].context = OwnContext[last.thread]
                    /\ heap' = heap
              /\ (threads[t].pc = "push" /\ threads'[t].pc = "rule") =>
                    (heap[id].kind \notin GatedKinds /\ heap' = heap)
              /\ (threads[t].pc = "store" /\ threads'[t].pc = "rule") =>
                    /\ heap'[id].context = threads[t].context
                    /\ SetBySomeThread(threads[t].context)
              /\ (threads[t].pc = "rule" /\ threads'[t].pc # "rule") =>
                    LET results == IF threads'[t].pc = "done" THEN <<>>
                                   ELSE threads'[t].results
                        result == EvalRule(heap, id, threads[t].text,
                                           threads[t].latency_ms)
                    IN  /\ heap[id].kind \in GatedKinds =>
                              SetBySomeThread(heap[id].context)
                        /\ threads'[t].pc = "push" =>
                              results = Append(threads[t].results, result)
                        /\ threads'[t].pc = "done" =>
                              threads'[t].verdict =
                                  CollectVerdict(Append(threads[t].results, result))]_vars

\* A thread finished evaluate with a verdict that is not the one of its own
\* context but the one of the other thread's context.
C28_Witness ==
    \E t \in Threads : \E other \in Threads \ {t} :
        /\ threads[t].pc = "done"
        /\ last.op = "set_context"
        /\ last.thread = other
        /\ threads[t].verdict #
              VerdictUnder(heap, t, threads[t].text, threads[t].latency_ms)
        /\ threads[t].verdict =
              VerdictUnder(heap, other, threads[t].text, threads[t].latency_ms)

(***************************************************************************)
(* Concurrent registration (checked under SpecRace).                       *)
(***************************************************************************)
\* C29: register is a check followed by an insert.  A call raises exactly
\* when its check finds the name; the insert of a call that passed the check
\* sets name -> template whatever the registry holds by then, so of two
\* calls that both passed the check the later insert replaces the earlier
\* template and both return; a get changes nothing and returns the template
\* the registry holds under the name.
C29_CheckThenInsert ==
    [][/\ \A t \in Threads :
            (threads[t].pc = "built" /\ threads'[t].pc # "built") =>
                /\ threads'[t].pc = "raised" <=>
                      threads[t].template.name \in DOMAIN registry
                /\ threads'[t].pc = "checked" <=>
                      threads[t].template.name \notin DOMAIN registry
                /\ registry' = registry
       /\ \A t \in Threads :
            (threads[t].pc = "checked" /\ threads'[t].pc # "checked") =>
                /\ threads'[t].pc = "returned"
                /\ threads[t].template.name \in DOMAIN registry'
                /\ registry'[threads[t].template.name] = threads[t].template
                /\ OtherEntriesKept(threads[t].template.name)
       /\ last'.op = "get" =>
            /\ registry' = registry
            /\ IF last'.name \in DOMAIN registry
               THEN last'.raised = None /\ last'.result = Some(registry[last'.name])
               ELSE last'.raised = Some("KeyError")]_vars

\* Both register calls for one name returned without error, the registry
\* holds the template of the call that inserted last and the other call's
\* template is gone.
C29_Witness ==
    /\ \A t \in Threads : threads[t].pc = "returned"
    /\ threads[1].template.name = threads[2].template.name
    /\ threads[1].template # threads[2].template
    /\ last.op = "insert"
    /\ registry[threads[1].template.name] = threads[last.thread].template
    /\ \A name \in DOMAIN registry :
          \A t \in Threads \ {last.thread} : registry[name] # threads[t].template

(***************************************************************************)
(* Properties of the evidence comparators (checked under SpecEvidence).    *)
(***************************************************************************)
\* The 0-based indices below both lengths at which a and b differ.
DifferingIndices(a, b) ==
    {i \in 0..(Len(a) - 1) : i < Len(b) /\ a[i + 1] # b[i + 1]}

\* C30: compare_paths(a, b) reports diverged iff a differs from b;
\* divergence_point is absent iff not diverged; when the paths differ at an
\* index below both lengths it names the smallest such index; when one path
\* is a strict prefix of the other it is the length-mismatch marker; the
\* result carries both paths unchanged and nothing else, in particular no
\* pass/fail decision.
C30_ComparePaths ==
    last.op = "compare_paths" =>
        LET a == last.a
            b == last.b
            r == last.result
            D == DifferingIndices(a, b)
        IN  /\ r.diverged = (a # b)
            /\ (r.divergence_point = None) = ~r.diverged
            /\ D # {} =>
                  \E i \in D :
                      /\ \A j \in D : i <= j
                      /\ r.divergence_point = Some(<<"index_", i>>)
            /\ (D = {} /\ Len(a) # Len(b)) =>
                  r.divergence_point = Some(<<"length_mismatch">>)
            /\ r.original_path = a
            /\ r.new_path = b
            /\ DOMAIN r = {"original_path", "new_path", "diverged", "divergence_point"}

\* compare_paths ran on two paths of equal length that differ at two
\* indices, the first of them not index 0.
C30_Witness ==
    /\ last.op = "compare_paths"
    /\ Len(last.a) = Len(last.b)
    /\ Cardinality(DifferingIndices(last.a, last.b)) = 2
    /\ 0 \notin DifferingIndices(last.a, last.b)
    /\ last.result.divergence_point = Some(<<"index_", 1>>)

====
